---- MODULE Spec2Model ----
(***************************************************************************)
(* The loop scoring engine of rifflane (src/src/scoring/engine.ts) with    *)
(* its configuration (src/src/scoring/config.ts) and pitch helpers         *)
(* (src/src/scoring/pitch.ts), as a state machine.                         *)
(*                                                                         *)
(* Numbers are integers: milliseconds for times, cents for pitch.  A JS    *)
(* value that may be absent, undefined or non-finite is a "slot" record    *)
(* [has, def, fin, v]; a nullable result is a sequence, <<>> for null and  *)
(* <<v>> for the value v.  A method is an operator from the engine and the *)
(* arguments to the engine it leaves and the value it returns; the actions *)
(* apply the methods to the one engine of the state.                       *)
(***************************************************************************)
EXTENDS Integers, Sequences, FiniteSets, TLC

VARIABLES
  chart,                \* LoopScoringEngine.chart (NormalizedChart)
  openStringMidiByLane, \* LoopScoringEngine.openStringMidiByLane (readonly)
  config,               \* LoopScoringEngine.config
  nextLoopIndexByNote,  \* LoopScoringEngine.nextLoopIndexByNote
  perfectCount,         \* LoopScoringEngine.perfectCount
  goodCount,            \* LoopScoringEngine.goodCount
  missCount,            \* LoopScoringEngine.missCount
  judged,               \* history: per note, the loopIndex of every event since the last cursor reset
  tally,                \* history: returned events per judgement since the last stats reset
  objects,              \* the config and overrides objects of the heap, by identity
  configRef,            \* the identity of the object this.config refers to
  held,                 \* the identities of the objects the caller holds
  returned,             \* history: what getConfig() returned since the last config update
  smf,                  \* the Standard MIDI File as the decoder (new Midi) reads it
  heldSmf,              \* the ParsedSmf the caller holds, if any
  laneChart,            \* what the last convertSmfTrackToLaneChart call came to, if any
  scoringChart,         \* what the last chart adapter call came to, if any
  laneScroller,         \* main.ts laneScroller: running, playheadMs, speedMultiplier, chart
  activeLaneChart,      \* main.ts activeLaneChart
  transportClock,       \* main.ts transportClock
  scoringFrameId,       \* main.ts scoringFrameId: <<>> for null, <<1>> for a pending frame
  passed                \* history: the last evaluatedAtMs values main.ts passed since the import

vars == <<chart, openStringMidiByLane, config, nextLoopIndexByNote,
          perfectCount, goodCount, missCount, judged, tally,
          objects, configRef, held, returned,
          smf, heldSmf, laneChart, scoringChart,
          laneScroller, activeLaneChart, transportClock, scoringFrameId, passed>>

\* the object identities: they matter to the calls that pass and return objects
copyVars == <<objects, configRef, held, returned>>

\* the import of a chart: the file, its parse, its conversion, its adaptation
importVars == <<smf, heldSmf, laneChart, scoringChart>>

\* the app around the engine: the lane scroller and the transport clock
transportVars == <<laneScroller, activeLaneChart, transportClock, scoringFrameId, passed>>

engineVars == <<chart, openStringMidiByLane, config, nextLoopIndexByNote,
                perfectCount, goodCount, missCount>>

---------------------------------------------------------------------------
(* Bounds of the model *)

\* evaluatedAtMs ranges over 0, TimeStep, ..., MaxTick * TimeStep
MaxTick == 8

\* the objects alive at a time: the engine's config and those the caller holds
MaxObjects == 3

---------------------------------------------------------------------------
(* JavaScript numbers and optional values *)

Abs(x) == IF x < 0 THEN -x ELSE x

\* a % b of JavaScript for b > 0: the sign follows the dividend
JsRemainder(a, b) == IF a >= 0 THEN a % b ELSE -((-a) % b)

\* Math.floor(a / b) for b > 0
FloorDiv(a, b) == a \div b

Absent == [has |-> FALSE, def |-> FALSE, fin |-> FALSE, v |-> 0]
Undefined == [has |-> TRUE, def |-> FALSE, fin |-> FALSE, v |-> 0]
NaN == [has |-> TRUE, def |-> TRUE, fin |-> FALSE, v |-> 0]
Num(x) == [has |-> TRUE, def |-> TRUE, fin |-> TRUE, v |-> x]
PosInfinity == [has |-> TRUE, def |-> TRUE, fin |-> FALSE, v |-> 1]
NegInfinity == [has |-> TRUE, def |-> TRUE, fin |-> FALSE, v |-> -1]

\* slot ?? dflt
Nullish(slot, dflt) == IF slot.def THEN slot ELSE Num(dflt)

Ok(value) == [ok |-> TRUE, value |-> value, error |-> ""]
Throw(message) == [ok |-> FALSE, value |-> <<>>, error |-> message]

---------------------------------------------------------------------------
(* src/src/scoring/types.ts, src/src/scoring/pitch.ts *)

LANE_NAME_SET == {"E", "A", "D", "G"}

DEFAULT_OPEN_STRING_MIDI_BY_LANE == [E |-> 28, A |-> 33, D |-> 38, G |-> 43]

resolveOpenStringMidiByLane == DEFAULT_OPEN_STRING_MIDI_BY_LANE

toMidiNoteFromLaneAndFret(lane, fret, table) == table[lane] + fret

toCentsFromMidiNote(midiNote) == midiNote * 100

---------------------------------------------------------------------------
(* src/src/scoring/config.ts *)

DEFAULT_TIMING_WINDOW_MS == 80
DEFAULT_PITCH_WINDOW_CENTS == 35
DEFAULT_LATENCY_OFFSET_MS == 0
DEFAULT_PERFECT_TIMING_WINDOW_MS == 40
DEFAULT_PERFECT_PITCH_WINDOW_CENTS == 20

ConfigFields == {"timingWindowMs", "pitchWindowCents", "latencyOffsetMs",
                 "perfectTimingWindowMs", "perfectPitchWindowCents"}

NoOverrides == [f \in ConfigFields |-> Absent]

\* { ...base, ...overrides }: a key of overrides wins, whatever its value
Spread(base, overrides) ==
  [f \in ConfigFields |-> IF overrides[f].has THEN overrides[f] ELSE Num(base[f])]

IsFiniteNumber(slot) == slot.fin

IsFinitePositive(slot) == slot.fin /\ slot.v > 0

createScoringConfig(overrides) ==
  LET timingWindowMs == Nullish(overrides.timingWindowMs, DEFAULT_TIMING_WINDOW_MS)
      pitchWindowCents == Nullish(overrides.pitchWindowCents, DEFAULT_PITCH_WINDOW_CENTS)
      latencyOffsetMs == Nullish(overrides.latencyOffsetMs, DEFAULT_LATENCY_OFFSET_MS)
      perfectTimingWindowMs ==
        Nullish(overrides.perfectTimingWindowMs, DEFAULT_PERFECT_TIMING_WINDOW_MS)
      perfectPitchWindowCents ==
        Nullish(overrides.perfectPitchWindowCents, DEFAULT_PERFECT_PITCH_WINDOW_CENTS)
  IN  IF ~IsFiniteNumber(timingWindowMs) THEN Throw("timingWindowMs must be a finite number.")
      ELSE IF timingWindowMs.v <= 0 THEN Throw("timingWindowMs must be > 0.")
      ELSE IF ~IsFiniteNumber(pitchWindowCents) THEN Throw("pitchWindowCents must be a finite number.")
      ELSE IF pitchWindowCents.v <= 0 THEN Throw("pitchWindowCents must be > 0.")
      ELSE IF ~IsFiniteNumber(latencyOffsetMs) THEN Throw("latencyOffsetMs must be a finite number.")
      ELSE IF ~IsFiniteNumber(perfectTimingWindowMs)
        THEN Throw("perfectTimingWindowMs must be a finite number.")
      ELSE IF perfectTimingWindowMs.v <= 0 THEN Throw("perfectTimingWindowMs must be > 0.")
      ELSE IF ~IsFiniteNumber(perfectPitchWindowCents)
        THEN Throw("perfectPitchWindowCents must be a finite number.")
      ELSE IF perfectPitchWindowCents.v <= 0 THEN Throw("perfectPitchWindowCents must be > 0.")
      ELSE IF perfectTimingWindowMs.v > timingWindowMs.v
        THEN Throw("perfectTimingWindowMs must be <= timingWindowMs.")
      ELSE IF perfectPitchWindowCents.v > pitchWindowCents.v
        THEN Throw("perfectPitchWindowCents must be <= pitchWindowCents.")
      ELSE Ok([timingWindowMs |-> timingWindowMs.v,
               pitchWindowCents |-> pitchWindowCents.v,
               latencyOffsetMs |-> latencyOffsetMs.v,
               perfectTimingWindowMs |-> perfectTimingWindowMs.v,
               perfectPitchWindowCents |-> perfectPitchWindowCents.v])

---------------------------------------------------------------------------
(* src/src/scoring/engine.ts: chart normalization *)

\* a slip: the remainder is returned as it is, negative for a negative time
wrapTimeMsBySign(timeMs, loopDurationMs) == JsRemainder(timeMs, loopDurationMs)

wrapTimeMs(timeMs, loopDurationMs) ==
  LET wrapped == JsRemainder(timeMs, loopDurationMs)
  IN  IF wrapped < 0 THEN wrapped + loopDurationMs ELSE wrapped

isScoringLane(value) == value \in LANE_NAME_SET

\* One element of chart.notes.map(...): Ok(InternalNote) or a Throw.
\* rawNote is [lane, timeMs, durationMs, fret, targetMidiNote, targetCents],
\* lane a string and the others slots.  The id is `note-${index}`, written index.
normalizeNote(rawNote, index, loopDurationMs, table) ==
  LET durationMs == Nullish(rawNote.durationMs, 0)
      fretGiven == rawNote.fret.def
      midiFromInput ==
        IF rawNote.targetMidiNote.def THEN <<rawNote.targetMidiNote.v>>
        ELSE IF fretGiven THEN <<toMidiNoteFromLaneAndFret(rawNote.lane, rawNote.fret.v, table)>>
        ELSE <<>>
      targetCents ==
        IF rawNote.targetCents.def THEN <<rawNote.targetCents.v>>
        ELSE IF midiFromInput # <<>> THEN <<toCentsFromMidiNote(midiFromInput[1])>>
        ELSE <<>>
  IN  IF ~isScoringLane(rawNote.lane) THEN Throw("notes[i].lane is invalid")
      ELSE IF ~rawNote.timeMs.fin THEN Throw("notes[i].timeMs must be a finite number.")
      ELSE IF ~durationMs.fin THEN Throw("notes[i].durationMs must be a finite number.")
      ELSE IF durationMs.v < 0 THEN Throw("notes[i].durationMs must be >= 0.")
      ELSE IF fretGiven /\ ~rawNote.fret.fin THEN Throw("notes[i].fret must be a finite number.")
      ELSE IF rawNote.targetMidiNote.def /\ ~rawNote.targetMidiNote.fin
        THEN Throw("notes[i].targetMidiNote must be a finite number.")
      ELSE IF rawNote.targetCents.def /\ ~rawNote.targetCents.fin
        THEN Throw("notes[i].targetCents must be a finite number.")
      ELSE IF targetCents = <<>>
        THEN Throw("notes[i] requires either targetCents, targetMidiNote, or fret to resolve pitch.")
      ELSE Ok([id |-> index,
               lane |-> rawNote.lane,
               timeMs |-> wrapTimeMs(rawNote.timeMs.v, loopDurationMs),
               durationMs |-> durationMs.v,
               fret |-> IF fretGiven THEN <<rawNote.fret.v>> ELSE <<>>,
               targetMidiNote |->
                 IF midiFromInput # <<>> THEN midiFromInput[1] ELSE targetCents[1] \div 100,
               targetCents |-> targetCents[1],
               sourceOrder |-> index])

\* a slip: the comparator looks at the source order only
compareNotesBySourceOrder(left, right) == left.sourceOrder - right.sourceOrder

\* a slip: among equal times the note given later goes first
compareNotesLaterFirst(left, right) ==
  IF left.timeMs # right.timeMs
    THEN left.timeMs - right.timeMs
    ELSE right.sourceOrder - left.sourceOrder

\* The comparator of notes.sort: negative when left goes first
compareNotes(left, right) ==
  IF left.timeMs # right.timeMs
    THEN left.timeMs - right.timeMs
    ELSE left.sourceOrder - right.sourceOrder

RECURSIVE insertNote(_, _)
insertNote(sorted, note) ==
  IF sorted = <<>> THEN <<note>>
  ELSE IF compareNotes(note, Head(sorted)) < 0 THEN <<note>> \o sorted
  ELSE <<Head(sorted)>> \o insertNote(Tail(sorted), note)

\* notes.sort(comparator): the comparator is a total order here, so every
\* sorting algorithm returns the same array
RECURSIVE sortNotes(_)
sortNotes(notes) ==
  IF notes = <<>> THEN <<>>
  ELSE insertNote(sortNotes(SubSeq(notes, 1, Len(notes) - 1)), notes[Len(notes)])

normalizeChart(rawChart, table) ==
  LET mapped == [i \in 1..Len(rawChart.notes) |->
                   normalizeNote(rawChart.notes[i], i - 1, rawChart.loopDurationMs.v, table)]
      failed == {i \in 1..Len(mapped) : ~mapped[i].ok}
      first == CHOOSE i \in failed : \A j \in failed : i <= j
  IN  IF ~rawChart.loopDurationMs.fin THEN Throw("loopDurationMs must be a finite number.")
      ELSE IF rawChart.loopDurationMs.v <= 0 THEN Throw("loopDurationMs must be > 0.")
      ELSE IF failed # {} THEN Throw(mapped[first].error)
      ELSE Ok([loopDurationMs |-> rawChart.loopDurationMs.v,
               notes |-> sortNotes([i \in 1..Len(mapped) |-> mapped[i].value])])

---------------------------------------------------------------------------
(* src/src/scoring/engine.ts: LoopScoringEngine.  An engine value e is the *)
(* record of the object's fields.                                          *)

GOOD_ACCURACY_WEIGHT_HALVES == 1   \* GOOD_ACCURACY_WEIGHT = 0.5, in halves

\* a slip: the offset is taken off instead of added
applyLatencyOffsetBackwards(e, evaluatedAtMs) == evaluatedAtMs - e.config.latencyOffsetMs

applyLatencyOffset(e, evaluatedAtMs) == evaluatedAtMs + e.config.latencyOffsetMs

getOccurrenceTimeMs(e, note, loopIndex) == note.timeMs + e.chart.loopDurationMs * loopIndex

createEventNote(note, loopIndex, occurrenceTimeMs) ==
  [id |-> note.id, lane |-> note.lane, fret |-> note.fret, timeMs |-> note.timeMs,
   durationMs |-> note.durationMs, targetMidiNote |-> note.targetMidiNote,
   targetCents |-> note.targetCents, loopIndex |-> loopIndex,
   occurrenceTimeMs |-> occurrenceTimeMs]

createEvent(judgement, source, reason, evaluatedAtMs, adjustedTimeMs, timingErrorMs, pitchErrorCents, note, loopIndex, occurrenceTimeMs) ==
  [judgement |-> judgement, source |-> source, reason |-> reason,
   evaluatedAtMs |-> evaluatedAtMs, adjustedTimeMs |-> adjustedTimeMs,
   timingErrorMs |-> timingErrorMs, pitchErrorCents |-> pitchErrorCents,
   note |-> createEventNote(note, loopIndex, occurrenceTimeMs)]

\* a slip: the Good branch is missing
registerJudgementWithoutGood(e, judgement) ==
  IF judgement = "Perfect" THEN [e EXCEPT !.perfectCount = @ + 1]
  ELSE [e EXCEPT !.missCount = @ + 1]

registerJudgement(e, judgement) ==
  IF judgement = "Perfect" THEN [e EXCEPT !.perfectCount = @ + 1]
  ELSE IF judgement = "Good" THEN [e EXCEPT !.goodCount = @ + 1]
  ELSE [e EXCEPT !.missCount = @ + 1]

\* a slip: an occurrence exactly at the threshold is left alone too
notYetMissedOrJustDue(firstOccurrenceTimeMs, missThresholdTimeMs) ==
  firstOccurrenceTimeMs >= missThresholdTimeMs

\* the sweep leaves a note alone: `if (firstOccurrenceTimeMs > missThresholdTimeMs) continue`
notYetMissed(firstOccurrenceTimeMs, missThresholdTimeMs) ==
  firstOccurrenceTimeMs > missThresholdTimeMs

\* a slip: the occurrence at the cursor is not counted
loopCountToMissFloorOnly(missThresholdTimeMs, firstOccurrenceTimeMs, loopDurationMs) ==
  FloorDiv(missThresholdTimeMs - firstOccurrenceTimeMs, loopDurationMs)

loopCountToMiss(missThresholdTimeMs, firstOccurrenceTimeMs, loopDurationMs) ==
  FloorDiv(missThresholdTimeMs - firstOccurrenceTimeMs, loopDurationMs) + 1

\* a slip: the count is stored as the cursor
cursorAfterSweepFromZero(nextLoopIndex, count) == count

\* this.nextLoopIndexByNote[index] = nextLoopIndex + loopCountToMiss
\* a slip: the last occurrence retired by the sweep stays the next one
cursorAfterSweepKeepingLast(nextLoopIndex, count) == nextLoopIndex + count - 1

cursorAfterSweep(nextLoopIndex, count) == nextLoopIndex + count

\* the inner loop of collectAutoMisses, from offset on: [engine, events]
RECURSIVE missOccurrences(_, _, _, _, _, _, _, _)
missOccurrences(e, evs, note, nextLoopIndex, offset, count, evaluatedAtMs, adjustedTimeMs) ==
  IF ~(offset < count) THEN [engine |-> e, events |-> evs]
  ELSE LET loopIndex == nextLoopIndex + offset
           occurrenceTimeMs == getOccurrenceTimeMs(e, note, loopIndex)
           event == createEvent("Miss", "auto-miss", "auto-miss", evaluatedAtMs,
                                adjustedTimeMs, adjustedTimeMs - occurrenceTimeMs, <<>>,
                                note, loopIndex, occurrenceTimeMs)
       IN  missOccurrences(registerJudgement(e, event.judgement), Append(evs, event), note,
                           nextLoopIndex, offset + 1, count, evaluatedAtMs, adjustedTimeMs)

\* the outer loop of collectAutoMisses, from index on (1-based): [engine, events]
RECURSIVE sweepNotes(_, _, _, _, _)
sweepNotes(e, evs, index, evaluatedAtMs, adjustedTimeMs) ==
  IF index > Len(e.chart.notes) THEN [engine |-> e, events |-> evs]
  ELSE LET missThresholdTimeMs == adjustedTimeMs - e.config.timingWindowMs
           note == e.chart.notes[index]
           nextLoopIndex == e.nextLoopIndexByNote[index]
           firstOccurrenceTimeMs == getOccurrenceTimeMs(e, note, nextLoopIndex)
           count == loopCountToMiss(missThresholdTimeMs, firstOccurrenceTimeMs,
                                    e.chart.loopDurationMs)
           missed == missOccurrences(e, evs, note, nextLoopIndex, 0, count,
                                     evaluatedAtMs, adjustedTimeMs)
       IN  IF notYetMissed(firstOccurrenceTimeMs, missThresholdTimeMs)
             THEN sweepNotes(e, evs, index + 1, evaluatedAtMs, adjustedTimeMs)
             ELSE sweepNotes(
                    [missed.engine EXCEPT
                       !.nextLoopIndexByNote[index] = cursorAfterSweep(nextLoopIndex, count)],
                    missed.events, index + 1, evaluatedAtMs, adjustedTimeMs)

collectAutoMisses(e, evaluatedAtMs, adjustedTimeMs) ==
  sweepNotes(e, <<>>, 1, evaluatedAtMs, adjustedTimeMs)

\* a slip: on equal |timingErrorMs| the note scanned later wins
replacesBestOnTie(e, candidate, best) ==
  candidate.absTimingErrorMs <= best.absTimingErrorMs

\* does the note scanned now replace the current best candidate?
replacesBest(e, candidate, best) ==
  IF candidate.absTimingErrorMs < best.absTimingErrorMs THEN TRUE
  ELSE IF candidate.absTimingErrorMs > best.absTimingErrorMs THEN FALSE
  ELSE IF candidate.occurrenceTimeMs < best.occurrenceTimeMs THEN TRUE
  ELSE /\ candidate.occurrenceTimeMs = best.occurrenceTimeMs
       /\ e.chart.notes[candidate.noteIndex].sourceOrder
            < e.chart.notes[best.noteIndex].sourceOrder

\* `laneFilter !== null && note.lane !== laneFilter`: the note is passed over
filteredOut(laneFilter, note) == laneFilter # <<>> /\ note.lane # laneFilter[1]

\* the loop of findBestCandidate, from index on (1-based); best is <<>> or <<candidate>>
RECURSIVE scanCandidates(_, _, _, _, _)
scanCandidates(e, best, index, adjustedTimeMs, laneFilter) ==
  IF index > Len(e.chart.notes) THEN best
  ELSE LET note == e.chart.notes[index]
           loopIndex == e.nextLoopIndexByNote[index]
           occurrenceTimeMs == getOccurrenceTimeMs(e, note, loopIndex)
           timingErrorMs == adjustedTimeMs - occurrenceTimeMs
           candidate == [noteIndex |-> index, loopIndex |-> loopIndex,
                         occurrenceTimeMs |-> occurrenceTimeMs,
                         timingErrorMs |-> timingErrorMs,
                         absTimingErrorMs |-> Abs(timingErrorMs)]
           next == IF filteredOut(laneFilter, note) THEN best
                   ELSE IF candidate.absTimingErrorMs > e.config.timingWindowMs THEN best
                   ELSE IF best = <<>> THEN <<candidate>>
                   ELSE IF replacesBest(e, candidate, best[1]) THEN <<candidate>>
                   ELSE best
       IN  scanCandidates(e, next, index + 1, adjustedTimeMs, laneFilter)

findBestCandidate(e, adjustedTimeMs, laneFilter) ==
  scanCandidates(e, <<>>, 1, adjustedTimeMs, laneFilter)

\* a slip: the perfect pitch window excludes its edge
judgeStrictly(cfg, absTimingErrorMs, absPitchErrorCents) ==
  IF /\ absTimingErrorMs <= cfg.perfectTimingWindowMs
     /\ absPitchErrorCents < cfg.perfectPitchWindowCents
    THEN <<"Perfect", "perfect-window">>
  ELSE IF /\ absTimingErrorMs <= cfg.timingWindowMs
          /\ absPitchErrorCents <= cfg.pitchWindowCents
    THEN <<"Good", "good-window">>
  ELSE IF absPitchErrorCents > cfg.pitchWindowCents
    THEN <<"Miss", "pitch-window">>
  ELSE <<"Miss", "timing-window">>

\* a slip: the timing window of a Good excludes its edge
judgeBeforeTheEdge(cfg, absTimingErrorMs, absPitchErrorCents) ==
  IF /\ absTimingErrorMs <= cfg.perfectTimingWindowMs
     /\ absPitchErrorCents <= cfg.perfectPitchWindowCents
    THEN <<"Perfect", "perfect-window">>
  ELSE IF /\ absTimingErrorMs < cfg.timingWindowMs
          /\ absPitchErrorCents <= cfg.pitchWindowCents
    THEN <<"Good", "good-window">>
  ELSE IF absPitchErrorCents > cfg.pitchWindowCents
    THEN <<"Miss", "pitch-window">>
  ELSE <<"Miss", "timing-window">>

\* the judgement of evaluate for a finite pitch: <<judgement, reason>>
judge(cfg, absTimingErrorMs, absPitchErrorCents) ==
  IF /\ absTimingErrorMs <= cfg.perfectTimingWindowMs
     /\ absPitchErrorCents <= cfg.perfectPitchWindowCents
    THEN <<"Perfect", "perfect-window">>
  ELSE IF /\ absTimingErrorMs <= cfg.timingWindowMs
          /\ absPitchErrorCents <= cfg.pitchWindowCents
    THEN <<"Good", "good-window">>
  ELSE IF absPitchErrorCents > cfg.pitchWindowCents
    THEN <<"Miss", "pitch-window">>
  ELSE <<"Miss", "timing-window">>

\* a slip: the matched occurrence stays the next one
cursorAfterMatchStuck(loopIndex) == loopIndex

\* this.nextLoopIndexByNote[candidate.noteIndex] = candidate.loopIndex + 1
\* a slip: the match passes over the occurrence after the matched one too
cursorAfterMatchSkipping(loopIndex) == loopIndex + 2

cursorAfterMatch(loopIndex) == loopIndex + 1

\* a slip: only the type is looked at, and NaN is a number
pitchIsNoNumber(pitchCents) == ~pitchCents.def

\* `typeof pitchCents !== 'number' || !Number.isFinite(pitchCents)`
pitchIsMissing(pitchCents) == ~(pitchCents.def /\ pitchCents.fin)

\* a slip: events.unshift(event)
unshiftEvent(evs, event) == <<event>> \o evs

\* events.push(event)
pushEvent(evs, event) == Append(evs, event)

\* the pitch-missing branch of evaluate: [engine, events]
missForPitchMissing(e, evs, candidate, note, evaluatedAtMs, adjustedTimeMs) ==
  LET missEvent == createEvent("Miss", "input", "pitch-missing", evaluatedAtMs,
                               adjustedTimeMs, candidate.timingErrorMs, <<>>, note,
                               candidate.loopIndex, candidate.occurrenceTimeMs)
  IN  [engine |-> registerJudgement(e, missEvent.judgement),
       events |-> pushEvent(evs, missEvent)]

\* evaluate(input) for a finite input.evaluatedAtMs: [engine, events].
\* pitchCents is a slot; lane is <<>> (null or missing) or <<lane>>.
evaluate(e, evaluatedAtMs, pitchCents, lane) ==
  LET adjustedTimeMs == applyLatencyOffset(e, evaluatedAtMs)
      swept == collectAutoMisses(e, evaluatedAtMs, adjustedTimeMs)
      found == findBestCandidate(swept.engine, adjustedTimeMs, lane)
      candidate == found[1]
      note == swept.engine.chart.notes[candidate.noteIndex]
      matched == [swept.engine EXCEPT
                    !.nextLoopIndexByNote[candidate.noteIndex] =
                       cursorAfterMatch(candidate.loopIndex)]
      pitchErrorCents == pitchCents.v - note.targetCents
      verdict == judge(matched.config, candidate.absTimingErrorMs, Abs(pitchErrorCents))
      event == createEvent(verdict[1], "input", verdict[2], evaluatedAtMs, adjustedTimeMs,
                           candidate.timingErrorMs, <<pitchErrorCents>>, note,
                           candidate.loopIndex, candidate.occurrenceTimeMs)
  IN  IF found = <<>> THEN swept
      ELSE IF pitchIsMissing(pitchCents)
        THEN missForPitchMissing(matched, swept.events, candidate, note,
                                 evaluatedAtMs, adjustedTimeMs)
      ELSE [engine |-> registerJudgement(matched, verdict[1]),
            events |-> pushEvent(swept.events, event)]

\* a slip: advance is an evaluate call without a pitch
advanceAsSampleWithoutPitch(e, evaluatedAtMs) == evaluate(e, evaluatedAtMs, Undefined, <<>>)

\* a slip: advance checks its argument and leaves the sweep to evaluate
advanceWithoutSweep(e, evaluatedAtMs) == [engine |-> e, events |-> <<>>]

\* advance(evaluatedAtMs) for a finite evaluatedAtMs: [engine, events]
advance(e, evaluatedAtMs) ==
  collectAutoMisses(e, evaluatedAtMs, applyLatencyOffset(e, evaluatedAtMs))

\* a slip: only NaN is rejected, an infinity is taken as a time
assertNotNaN(slot, label) ==
  IF slot = NaN THEN Throw(label \o " must be a finite number.") ELSE Ok(slot.v)

\* assertFiniteNumber(value, label): Ok(value) or the Throw
assertFiniteNumber(slot, label) ==
  IF ~slot.fin THEN Throw(label \o " must be a finite number.") ELSE Ok(slot.v)

\* evaluate(input) from its first line: Ok([engine, events]) or the Throw
evaluateInput(e, input) ==
  LET checked == assertFiniteNumber(input.evaluatedAtMs, "evaluatedAtMs")
  IN  IF ~checked.ok THEN checked
      ELSE Ok(evaluate(e, checked.value, input.pitchCents, input.lane))

\* advance(evaluatedAtMs) from its first line: Ok([engine, events]) or the Throw
advanceInput(e, evaluatedAtMs) ==
  LET checked == assertFiniteNumber(evaluatedAtMs, "evaluatedAtMs")
  IN  IF ~checked.ok THEN checked ELSE Ok(advance(e, checked.value))

\* a slip: the cursors go back to 0 with the counters
resetStatsAndCursors(e) ==
  [e EXCEPT !.perfectCount = 0, !.goodCount = 0, !.missCount = 0,
            !.nextLoopIndexByNote = [i \in 1..Len(@) |-> 0]]

resetStats(e) == [e EXCEPT !.perfectCount = 0, !.goodCount = 0, !.missCount = 0]

\* a slip: the cursors are left where they are
resetKeepingCursors(e) == resetStats(e)

reset(e) ==
  [resetStats(e) EXCEPT !.nextLoopIndexByNote = [i \in 1..Len(@) |-> 0]]

\* a slip: the chart and the cursors are replaced, the counters are kept
setChartKeepingStats(e, rawChart) ==
  LET normalized == normalizeChart(rawChart, e.openStringMidiByLane)
  IN  IF ~normalized.ok THEN normalized
      ELSE Ok([e EXCEPT
                !.chart = normalized.value,
                !.nextLoopIndexByNote = [i \in 1..Len(normalized.value.notes) |-> 0]])

\* setChart(chart): Ok(engine) or the Throw of normalizeChart
setChart(e, rawChart) ==
  LET normalized == normalizeChart(rawChart, e.openStringMidiByLane)
  IN  IF ~normalized.ok THEN normalized
      ELSE Ok(resetStats([e EXCEPT
                !.chart = normalized.value,
                !.nextLoopIndexByNote = [i \in 1..Len(normalized.value.notes) |-> 0]]))

getConfig(e) == e.config

\* a slip: the overrides are validated alone, then written over the config
updateConfigCheckingOverridesAlone(e, overrides) ==
  LET created == createScoringConfig(overrides)
  IN  IF created.ok
        THEN Ok([e EXCEPT !.config = [f \in ConfigFields |->
                                       IF overrides[f].def THEN overrides[f].v ELSE @[f]]])
        ELSE created

\* updateConfig(overrides): Ok(engine) or the Throw of createScoringConfig
updateConfig(e, overrides) ==
  LET created == createScoringConfig(Spread(e.config, overrides))
  IN  IF created.ok THEN Ok([e EXCEPT !.config = created.value]) ELSE created

\* a slip: the offset is assigned without passing through createScoringConfig
setLatencyOffsetMsUnchecked(e, offsetMs) ==
  Ok([e EXCEPT !.config.latencyOffsetMs = offsetMs.v])

setLatencyOffsetMs(e, offsetMs) ==
  LET created == createScoringConfig(
                   Spread(e.config, [NoOverrides EXCEPT !.latencyOffsetMs = offsetMs]))
  IN  IF created.ok THEN Ok([e EXCEPT !.config = created.value]) ELSE created

getLatencyOffsetMs(e) == e.config.latencyOffsetMs

\* a slip: a Good judgement weighs as much as a Perfect one
getStatsGoodAsPerfect(e) ==
  LET total == e.perfectCount + e.goodCount + e.missCount
  IN  [perfect |-> e.perfectCount, good |-> e.goodCount, miss |-> e.missCount,
       total |-> total,
       accuracyNum |-> IF total = 0 THEN 0 ELSE 2 * e.perfectCount + 2 * e.goodCount,
       accuracyDen |-> IF total = 0 THEN 1 ELSE 2 * total]

\* getStats(): accuracy is the fraction accuracyNum / accuracyDen
getStats(e) ==
  LET total == e.perfectCount + e.goodCount + e.missCount
  IN  [perfect |-> e.perfectCount, good |-> e.goodCount, miss |-> e.missCount,
       total |-> total,
       accuracyNum |-> IF total = 0 THEN 0
                       ELSE 2 * e.perfectCount + e.goodCount * GOOD_ACCURACY_WEIGHT_HALVES,
       accuracyDen |-> IF total = 0 THEN 1 ELSE 2 * total]

\* new LoopScoringEngine(options): Ok(engine) or a Throw
construct(rawChart, configOverrides) ==
  LET table == resolveOpenStringMidiByLane
      created == createScoringConfig(configOverrides)
      normalized == normalizeChart(rawChart, table)
  IN  IF ~created.ok THEN created
      ELSE IF ~normalized.ok THEN normalized
      ELSE Ok([chart |-> normalized.value,
               openStringMidiByLane |-> table,
               config |-> created.value,
               nextLoopIndexByNote |-> [i \in 1..Len(normalized.value.notes) |-> 0],
               perfectCount |-> 0, goodCount |-> 0, missCount |-> 0])

---------------------------------------------------------------------------
(* The inputs the calls are made with *)

\* the grid of the timestamps: every window of the default config is a multiple
TimeStep == DEFAULT_PERFECT_TIMING_WINDOW_MS

FiniteTimes == {k * TimeStep : k \in 0..MaxTick}

\* the target pitch of every note of the charts below, in cents: the open A string
TargetCents == toCentsFromMidiNote(DEFAULT_OPEN_STRING_MIDI_BY_LANE.A)

\* the fret of the E string that sounds the open A string
FretOfAOnE == DEFAULT_OPEN_STRING_MIDI_BY_LANE.A - DEFAULT_OPEN_STRING_MIDI_BY_LANE.E

PitchOffsets == {DEFAULT_PERFECT_PITCH_WINDOW_CENTS,
                 -DEFAULT_PITCH_WINDOW_CENTS,
                 DEFAULT_PITCH_WINDOW_CENTS + 1}

\* pitchCents: null, NaN, or a pitch around the target
PitchInputs == {Undefined, NaN} \cup {Num(TargetCents + d) : d \in PitchOffsets}

LaneInputs == {<<>>, <<"A">>}

NonFiniteTimes == {NaN, PosInfinity, NegInfinity}

\* the arguments of evaluate: every finite combination, and the non-finite timestamps
EvaluateInputs ==
  {[evaluatedAtMs |-> Num(t), pitchCents |-> p, lane |-> l] :
     t \in FiniteTimes, p \in PitchInputs, l \in LaneInputs}
  \cup {[evaluatedAtMs |-> t, pitchCents |-> p, lane |-> <<>>] :
          t \in NonFiniteTimes, p \in {Undefined, Num(TargetCents)}}

AdvanceInputs == {Num(t) : t \in FiniteTimes} \cup NonFiniteTimes

RawNote(lane, timeMs, fret) ==
  [lane |-> lane, timeMs |-> Num(timeMs), durationMs |-> Num(TimeStep), fret |-> Num(fret),
   targetMidiNote |-> Absent, targetCents |-> Absent]

RawChart(loopDurationMs, notes) == [loopDurationMs |-> Num(loopDurationMs), notes |-> notes]

\* one note at the start of a loop as long as the default timing window
SingleChart == RawChart(2 * TimeStep, <<RawNote("A", 0, 0)>>)

\* two lanes, given out of time order, the second time negative
TwoLaneChart == RawChart(4 * TimeStep, <<RawNote("E", 3 * TimeStep, FretOfAOnE),
                                         RawNote("A", -(3 * TimeStep), 0)>>)

\* two notes whose wrapped times are equal
SameTimeChart == RawChart(4 * TimeStep, <<RawNote("E", 5 * TimeStep, FretOfAOnE),
                                          RawNote("A", TimeStep, 0)>>)

ValidCharts == {SingleChart, TwoLaneChart, SameTimeChart}

\* accepted too: the one note gives the cents of the open A string and the
\* note number two semitones above it
MixedPitchChart ==
  RawChart(2 * TimeStep,
           <<[RawNote("A", 0, 0) EXCEPT
                !.targetCents = Num(TargetCents),
                !.targetMidiNote = Num(DEFAULT_OPEN_STRING_MIDI_BY_LANE.A + 2)]>>)

\* the charts setChart accepts
AcceptedCharts == ValidCharts \cup {MixedPitchChart}

\* rejected by normalizeChart
InvalidCharts == {RawChart(0, <<RawNote("E", 0, 0)>>),
                  RawChart(4 * TimeStep, <<RawNote("E", 0, 0), RawNote("X", 0, 0)>>)}

Override(field, slot) == [NoOverrides EXCEPT ![field] = slot]

ConfigOverrideInputs ==
  {[NoOverrides EXCEPT !.timingWindowMs = Num(TimeStep), !.perfectTimingWindowMs = Num(TimeStep)],
   Override("timingWindowMs", Num(2 * TimeStep)),
   Override("perfectTimingWindowMs", Num(2 * TimeStep)),
   Override("timingWindowMs", Num(0))}

LatencyOffsetInputs == {Num(-TimeStep), Num(0), Num(TimeStep), NaN}

---------------------------------------------------------------------------
(* The state machine: one engine, driven through its public methods *)

Engine ==
  [chart |-> chart, openStringMidiByLane |-> openStringMidiByLane, config |-> config,
   nextLoopIndexByNote |-> nextLoopIndexByNote,
   perfectCount |-> perfectCount, goodCount |-> goodCount, missCount |-> missCount]

InstallEngine(e) ==
  /\ chart' = e.chart
  /\ openStringMidiByLane' = e.openStringMidiByLane
  /\ config' = e.config
  /\ nextLoopIndexByNote' = e.nextLoopIndexByNote
  /\ perfectCount' = e.perfectCount
  /\ goodCount' = e.goodCount
  /\ missCount' = e.missCount

\* the engine alone is driven: no object, no import and no app around it
Install(e) ==
  /\ InstallEngine(e)
  /\ UNCHANGED <<copyVars, importVars, transportVars>>

ObjectIds == 1..MaxObjects

\* a config object with the values of c
SlotsOf(c) == [f \in ConfigFields |-> Num(c[f])]

\* Spec and CopySpec start from a chart the caller wrote: nothing is imported
NoImport ==
  /\ smf = <<>>
  /\ heldSmf = <<>>
  /\ laneChart = <<>>
  /\ scoringChart = <<>>

\* there is no app around the engine
NoTransport ==
  /\ laneScroller = <<>>
  /\ activeLaneChart = <<>>
  /\ transportClock = <<>>
  /\ scoringFrameId = <<>>
  /\ passed = <<>>

\* Spec applies the methods to values and follows no object identity
NoObjects ==
  /\ objects = [i \in ObjectIds |-> NoOverrides]
  /\ configRef = 1
  /\ held = {}
  /\ returned = {}

CountOf(evs, judgement) == Cardinality({i \in 1..Len(evs) : evs[i].judgement = judgement})

NoTally == [perfect |-> 0, good |-> 0, miss |-> 0]

TallyWith(t, evs) ==
  [perfect |-> t.perfect + CountOf(evs, "Perfect"),
   good |-> t.good + CountOf(evs, "Good"),
   miss |-> t.miss + CountOf(evs, "Miss")]

\* the loopIndex values of the events of evs that carry the id, in order
LoopIndexesOf(evs, id) ==
  LET Carries(ev) == ev.note.id = id
      mine == SelectSeq(evs, Carries)
  IN  [k \in 1..Len(mine) |-> mine[k].note.loopIndex]

JudgedWith(j, notes, evs) ==
  [i \in 1..Len(notes) |-> j[i] \o LoopIndexesOf(evs, notes[i].id)]

NoneJudged(notes) == [i \in 1..Len(notes) |-> <<>>]

\* the call threw: the engine is as it was
Threw == UNCHANGED vars

\* the call returned: the engine is result.engine, the caller holds result.events
Returned(result) ==
  /\ Install(result.engine)
  /\ judged' = JudgedWith(judged, chart.notes, result.events)
  /\ tally' = TallyWith(tally, result.events)

Init ==
  \E rawChart \in ValidCharts :
    \E e \in {construct(rawChart, NoOverrides).value} :
        /\ chart = e.chart
        /\ openStringMidiByLane = e.openStringMidiByLane
        /\ config = e.config
        /\ nextLoopIndexByNote = e.nextLoopIndexByNote
        /\ perfectCount = e.perfectCount
        /\ goodCount = e.goodCount
        /\ missCount = e.missCount
        /\ judged = NoneJudged(e.chart.notes)
        /\ tally = NoTally
        /\ NoObjects
        /\ NoImport
        /\ NoTransport

Evaluate ==
  \E input \in EvaluateInputs :
    \E result \in {evaluateInput(Engine, input)} :
      IF ~result.ok THEN Threw ELSE Returned(result.value)

Advance ==
  \E evaluatedAtMs \in AdvanceInputs :
    \E result \in {advanceInput(Engine, evaluatedAtMs)} :
      IF ~result.ok THEN Threw ELSE Returned(result.value)

SetChart ==
  \E rawChart \in AcceptedCharts \cup InvalidCharts :
    \E result \in {setChart(Engine, rawChart)} :
      IF ~result.ok
        THEN Threw
        ELSE /\ Install(result.value)
             /\ judged' = NoneJudged(result.value.chart.notes)
             /\ tally' = NoTally

Reset ==
  \E e \in {reset(Engine)} :
    /\ Install(e)
    /\ judged' = NoneJudged(chart.notes)
    /\ tally' = NoTally

ResetStats ==
  \E e \in {resetStats(Engine)} :
    /\ Install(e)
    /\ tally' = NoTally
    /\ UNCHANGED judged

UpdateConfig ==
  \E overrides \in ConfigOverrideInputs :
    \E result \in {updateConfig(Engine, overrides)} :
      IF ~result.ok
        THEN Threw
        ELSE /\ Install(result.value)
             /\ UNCHANGED <<judged, tally>>

SetLatencyOffsetMs ==
  \E offsetMs \in LatencyOffsetInputs :
    \E result \in {setLatencyOffsetMs(Engine, offsetMs)} :
      IF ~result.ok
        THEN Threw
        ELSE /\ Install(result.value)
             /\ UNCHANGED <<judged, tally>>

\* getConfig(), getLatencyOffsetMs(), getStats(): they read and change nothing
Getters == UNCHANGED vars

Next ==
  \/ Evaluate
  \/ Advance
  \/ SetChart
  \/ Reset
  \/ ResetStats
  \/ UpdateConfig
  \/ SetLatencyOffsetMs
  \/ Getters

Spec == Init /\ [][Next]_vars

---------------------------------------------------------------------------
(* The config objects by identity: the constructor, getConfig, updateConfig *)
(* and setLatencyOffsetMs of one engine, and a caller that keeps and        *)
(* changes the objects it passed in and got back                            *)

allocated == held \cup {configRef}

HasRoom == ObjectIds \ allocated # {}

\* the identity `{ ... }` gets: an object that was not there before
FreshId == CHOOSE i \in ObjectIds \ allocated : \A j \in ObjectIds \ allocated : i <= j

\* the engine as its methods see it: this.config is the object of configRef
HeapEngine == [Engine EXCEPT !.config = [f \in ConfigFields |-> objects[configRef][f].v]]

\* a slip: getConfig() returns this.config
configItself(ref, fresh) == ref

\* getConfig() returns `{ ...this.config }`, a new object
configCopy(ref, fresh) == fresh

\* what the caller writes into an object it holds
MutatedFields == {"timingWindowMs"}

MutationSlots == {Num(1), NaN}

\* the overrides objects the caller makes: one accepted, one rejected
CopyOverrides ==
  {[NoOverrides EXCEPT !.timingWindowMs = Num(TimeStep), !.perfectTimingWindowMs = Num(TimeStep)],
   Override("timingWindowMs", Num(0))}

CopyLatencyOffsets == {Num(TimeStep), NaN}

\* new LoopScoringEngine({ chart, config }): the caller keeps the config
\* object it passed, createScoringConfig returns the engine's as a new one
CopyInit ==
  \E overrides \in {NoOverrides} \cup {o \in CopyOverrides : createScoringConfig(o).ok} :
    \E e \in {construct(SingleChart, overrides).value} :
        /\ chart = e.chart
        /\ openStringMidiByLane = e.openStringMidiByLane
        /\ config = e.config
        /\ nextLoopIndexByNote = e.nextLoopIndexByNote
        /\ perfectCount = e.perfectCount
        /\ goodCount = e.goodCount
        /\ missCount = e.missCount
        /\ judged = NoneJudged(e.chart.notes)
        /\ tally = NoTally
        /\ objects = [i \in ObjectIds |->
                        IF i = 1 THEN overrides
                        ELSE IF i = 2 THEN SlotsOf(e.config)
                        ELSE NoOverrides]
        /\ held = {1}
        /\ configRef = 2
        /\ returned = {}
        /\ NoImport
        /\ NoTransport

\* the engine's config becomes a new object with the values of c; the
\* object it was is garbage unless the caller holds it
StoreConfig(c) ==
  /\ objects' = [i \in ObjectIds |->
                   IF i = FreshId THEN SlotsOf(c)
                   ELSE IF i = configRef /\ i \notin held THEN NoOverrides
                   ELSE objects[i]]
  /\ configRef' = FreshId
  /\ config' = c
  /\ returned' = {}
  /\ UNCHANGED <<chart, openStringMidiByLane, nextLoopIndexByNote,
                 perfectCount, goodCount, missCount, judged, tally, held, importVars,
                 transportVars>>

CopyGetConfig ==
  /\ HasRoom
  /\ \E got \in {configCopy(configRef, FreshId)} :
       /\ objects' = [objects EXCEPT ![got] = objects[configRef]]
       /\ held' = held \cup {got}
       /\ returned' = returned \cup {objects[configRef]}
  /\ UNCHANGED <<engineVars, judged, tally, configRef, importVars, transportVars>>

\* the caller makes an overrides object
CopyMakeOverrides ==
  /\ HasRoom
  /\ \E overrides \in CopyOverrides :
       objects' = [objects EXCEPT ![FreshId] = overrides]
  /\ held' = held \cup {FreshId}
  /\ UNCHANGED <<engineVars, judged, tally, configRef, returned, importVars, transportVars>>

\* updateConfig(o) with an object o the caller holds
CopyUpdateConfig ==
  /\ HasRoom
  /\ \E o \in held :
       \E result \in {updateConfig(HeapEngine, objects[o])} :
         IF result.ok THEN StoreConfig(result.value.config) ELSE Threw

CopySetLatencyOffsetMs ==
  /\ HasRoom
  /\ \E offsetMs \in CopyLatencyOffsets :
       \E result \in {setLatencyOffsetMs(HeapEngine, offsetMs)} :
         IF result.ok THEN StoreConfig(result.value.config) ELSE Threw

\* the caller assigns to a property of an object it holds
CopyMutate ==
  /\ \E o \in held : \E f \in MutatedFields : \E slot \in MutationSlots :
       objects' = [objects EXCEPT ![o][f] = slot]
  /\ UNCHANGED <<engineVars, judged, tally, configRef, held, returned, importVars, transportVars>>

\* the caller lets go of an object
CopyDrop ==
  /\ \E o \in held :
       /\ held' = held \ {o}
       /\ objects' = IF o = configRef THEN objects ELSE [objects EXCEPT ![o] = NoOverrides]
  /\ UNCHANGED <<engineVars, judged, tally, configRef, returned, importVars, transportVars>>

CopyNext ==
  \/ CopyGetConfig
  \/ CopyMakeOverrides
  \/ CopyUpdateConfig
  \/ CopySetLatencyOffsetMs
  \/ CopyMutate
  \/ CopyDrop

CopySpec == CopyInit /\ [][CopyNext]_vars

---------------------------------------------------------------------------
(* What a call made in the current state returns and leaves *)

FiniteEvaluateInputs == {input \in EvaluateInputs : input.evaluatedAtMs.fin}

Evaluated(input) == evaluate(Engine, input.evaluatedAtMs.v, input.pitchCents, input.lane)

Advanced(evaluatedAtMs) == advance(Engine, evaluatedAtMs)

NoteIndexes == 1..Len(chart.notes)

\* the events of evs for the note of index i of the chart
EventsOfNote(evs, i) ==
  LET Mine(ev) == ev.note.id = chart.notes[i].id
  IN  SelectSeq(evs, Mine)

AutoMissesOf(evs) ==
  LET IsAutoMiss(ev) == ev.source = "auto-miss"
  IN  SelectSeq(evs, IsAutoMiss)

InputEventsOf(evs) ==
  LET IsInput(ev) == ev.source = "input"
  IN  SelectSeq(evs, IsInput)

CursorsNotBelow(e) ==
  /\ Len(e.nextLoopIndexByNote) = Len(nextLoopIndexByNote)
  /\ \A i \in 1..Len(nextLoopIndexByNote) : e.nextLoopIndexByNote[i] >= nextLoopIndexByNote[i]

---------------------------------------------------------------------------
(* The claims *)

\* C1: between two cursor resets the events of evaluate and advance for a note
\* carry the loop indexes 0, 1, 2, ... in this order, one event each, and the
\* note's cursor is the number of events emitted for it.
C1_OccurrencesJudgedOnceInOrder ==
  /\ Len(judged) = Len(chart.notes)
  /\ Len(nextLoopIndexByNote) = Len(chart.notes)
  /\ \A i \in NoteIndexes : judged[i] = [k \in 1..nextLoopIndexByNote[i] |-> k - 1]

\* C1 happens: a note with occurrences 0..k-1 judged (k >= 1) gets, in one
\* evaluate call, an auto-miss for occurrence k and an input judgement for k+1.
C1_Witness ==
  \E i \in NoteIndexes : \E input \in FiniteEvaluateInputs :
    LET mine == EventsOfNote(Evaluated(input).events, i)
    IN  /\ Len(judged[i]) >= 1
        /\ Len(mine) = 2
        /\ mine[1].source = "auto-miss" /\ mine[1].note.loopIndex = Len(judged[i])
        /\ mine[2].source = "input" /\ mine[2].note.loopIndex = Len(judged[i]) + 1

\* C2: no call of evaluate, advance, updateConfig, setLatencyOffsetMs, resetStats
\* or a getter lowers a cursor, whatever the timestamp and the offset.
C2_CursorNeverDecreases ==
  /\ \A input \in FiniteEvaluateInputs : CursorsNotBelow(Evaluated(input).engine)
  /\ \A t \in FiniteTimes : CursorsNotBelow(Advanced(t).engine)
  /\ \A overrides \in ConfigOverrideInputs :
       LET result == updateConfig(Engine, overrides)
       IN  result.ok => CursorsNotBelow(result.value)
  /\ \A offsetMs \in LatencyOffsetInputs :
       LET result == setLatencyOffsetMs(Engine, offsetMs)
       IN  result.ok => CursorsNotBelow(result.value)
  /\ CursorsNotBelow(resetStats(Engine))

\* C2 happens: a timestamp two loops behind a cursor is evaluated, and a sweep
\* moves another cursor that is already past 0.
C2_Witness ==
  /\ \E i \in NoteIndexes : \E input \in FiniteEvaluateInputs :
       /\ nextLoopIndexByNote[i] >= 2
       /\ input.evaluatedAtMs.v + config.latencyOffsetMs + chart.loopDurationMs
            < chart.notes[i].timeMs + chart.loopDurationMs * (nextLoopIndexByNote[i] - 1)
       /\ Evaluated(input).engine.nextLoopIndexByNote[i] = nextLoopIndexByNote[i]
  /\ \E i \in NoteIndexes : \E t \in FiniteTimes :
       /\ nextLoopIndexByNote[i] >= 1
       /\ Advanced(t).engine.nextLoopIndexByNote[i] > nextLoopIndexByNote[i]

\* the Miss events the claim C3 expects for note i of a sweep at evaluatedAtMs
ExpectedAutoMisses(i, evaluatedAtMs) ==
  LET note == chart.notes[i]
      cursor == nextLoopIndexByNote[i]
      a == evaluatedAtMs + config.latencyOffsetMs
      m == a - config.timingWindowMs
      first == note.timeMs + cursor * chart.loopDurationMs
      count == IF first > m THEN 0 ELSE ((m - first) \div chart.loopDurationMs) + 1
  IN  [k \in 1..count |->
        [judgement |-> "Miss", source |-> "auto-miss", reason |-> "auto-miss",
         evaluatedAtMs |-> evaluatedAtMs, adjustedTimeMs |-> a,
         timingErrorMs |-> a - (note.timeMs + (cursor + k - 1) * chart.loopDurationMs),
         pitchErrorCents |-> <<>>,
         note |-> [id |-> note.id, lane |-> note.lane, fret |-> note.fret,
                   timeMs |-> note.timeMs, durationMs |-> note.durationMs,
                   targetMidiNote |-> note.targetMidiNote, targetCents |-> note.targetCents,
                   loopIndex |-> cursor + k - 1,
                   occurrenceTimeMs |-> note.timeMs + (cursor + k - 1) * chart.loopDurationMs]]]

\* the chart of the engine tests: one E note at 1000 ms in a 2000 ms loop
ScenarioChart ==
  [loopDurationMs |-> Num(2000),
   notes |-> <<[lane |-> "E", timeMs |-> Num(1000), durationMs |-> Num(120), fret |-> Num(0),
                targetMidiNote |-> Absent, targetCents |-> Absent]>>]

ScenarioEngine == construct(ScenarioChart, NoOverrides).value

\* advance(7200) on the new scenario engine: four auto-misses, loopIndex 0..3
ScenarioAdvanceTo7200 ==
  LET evs == advance(ScenarioEngine, 7200).events
  IN  /\ Len(evs) = 4
      /\ \A k \in 1..4 : /\ evs[k].judgement = "Miss"
                         /\ evs[k].source = "auto-miss"
                         /\ evs[k].reason = "auto-miss"
                         /\ evs[k].note.loopIndex = k - 1
                         /\ evs[k].note.occurrenceTimeMs = 1000 + (k - 1) * 2000
                         /\ evs[k].timingErrorMs = 7200 - evs[k].note.occurrenceTimeMs

EveryEventOfTheChart(evs) ==
  \A k \in 1..Len(evs) : \E i \in NoteIndexes : evs[k].note.id = chart.notes[i].id

\* C3: a sweep at adjusted time a emits for a note nothing when its next
\* occurrence is after m = a - timingWindowMs, and otherwise the
\* floor((m - first) / loopDurationMs) + 1 auto-miss events of the occurrences
\* from the cursor on, and moves the cursor by that count; in advance and in
\* the sweep of evaluate alike (and advance(7200) emits loopIndex 0..3 for
\* the note at 1000 ms of a 2000 ms loop).
C3_SweepEmitsEveryExpiredOccurrence ==
  /\ ScenarioAdvanceTo7200
  /\ \A t \in FiniteTimes :
       LET result == Advanced(t)
       IN  /\ EveryEventOfTheChart(result.events)
           /\ \A i \in NoteIndexes :
                /\ EventsOfNote(result.events, i) = ExpectedAutoMisses(i, t)
                /\ result.engine.nextLoopIndexByNote[i]
                     = nextLoopIndexByNote[i] + Len(ExpectedAutoMisses(i, t))
  /\ \A input \in FiniteEvaluateInputs :
       LET result == Evaluated(input)
           misses == AutoMissesOf(result.events)
       IN  \A i \in NoteIndexes :
             /\ EventsOfNote(misses, i) = ExpectedAutoMisses(i, input.evaluatedAtMs.v)
             /\ result.engine.nextLoopIndexByNote[i]
                  = nextLoopIndexByNote[i] + Len(EventsOfNote(result.events, i))

\* C3 happens: an engine that has judged before emits, in one advance, four
\* auto-misses for the four occurrences from its cursor on.
C3_Witness ==
  \E t \in FiniteTimes :
    LET evs == Advanced(t).events
    IN  /\ Len(chart.notes) = 1
        /\ nextLoopIndexByNote[1] >= 1
        /\ Len(evs) = 4
        /\ \A k \in 1..4 : /\ evs[k].source = "auto-miss"
                           /\ evs[k].note.loopIndex = nextLoopIndexByNote[1] + k - 1

\* C4: after evaluate or advance returns, the next unresolved occurrence of
\* every note is later than adjustedTimeMs - timingWindowMs; an auto-miss has
\* timingErrorMs >= timingWindowMs, and no input judgement is for an
\* occurrence at or before adjustedTimeMs - timingWindowMs.
C4_NothingExpiredIsLeft ==
  LET Settled(result, evaluatedAtMs) ==
        LET m == evaluatedAtMs + config.latencyOffsetMs - config.timingWindowMs
        IN  /\ \A i \in NoteIndexes :
                 chart.notes[i].timeMs
                   + result.engine.nextLoopIndexByNote[i] * chart.loopDurationMs > m
            /\ \A k \in 1..Len(result.events) :
                 LET ev == result.events[k]
                 IN  /\ ev.source = "auto-miss" => ev.timingErrorMs >= config.timingWindowMs
                     /\ ev.source = "input" => ev.note.occurrenceTimeMs > m
  IN  /\ \A t \in FiniteTimes : Settled(Advanced(t), t)
      /\ \A input \in FiniteEvaluateInputs : Settled(Evaluated(input), input.evaluatedAtMs.v)

\* C4 happens: an engine that has judged a note before gets an evaluate call
\* with a finite pitch and a lane filter that admits the note, whose next
\* occurrence is exactly timingWindowMs before the adjusted time: the call
\* returns that occurrence as an auto-miss and judges nothing of the note.
C4_Witness ==
  \E input \in FiniteEvaluateInputs : \E i \in NoteIndexes :
    LET mine == EventsOfNote(Evaluated(input).events, i)
    IN  /\ input.pitchCents.def /\ input.pitchCents.fin
        /\ input.lane = <<>> \/ input.lane = <<chart.notes[i].lane>>
        /\ nextLoopIndexByNote[i] >= 1
        /\ Len(mine) = 1
        /\ mine[1].source = "auto-miss"
        /\ mine[1].timingErrorMs = config.timingWindowMs
        /\ mine[1].note.loopIndex = nextLoopIndexByNote[i]

\* the cursor of note i once the sweep of a call at evaluatedAtMs is over
SweptCursor(i, evaluatedAtMs) ==
  nextLoopIndexByNote[i] + Len(ExpectedAutoMisses(i, evaluatedAtMs))

\* the next unresolved occurrence of note i after that sweep
SweptOccurrenceTimeMs(i, evaluatedAtMs) ==
  chart.notes[i].timeMs + SweptCursor(i, evaluatedAtMs) * chart.loopDurationMs

\* the notes the lane filter admits whose next unresolved occurrence after
\* the sweep lies within timingWindowMs of the adjusted time
Eligible(input) ==
  LET t == input.evaluatedAtMs.v
      a == t + config.latencyOffsetMs
  IN  {i \in NoteIndexes :
         /\ input.lane = <<>> \/ input.lane = <<chart.notes[i].lane>>
         /\ Abs(a - SweptOccurrenceTimeMs(i, t)) <= config.timingWindowMs}

\* (|timingErrorMs|, occurrenceTimeMs, sourceOrder) of note i for the input
CandidateKey(i, input) ==
  LET t == input.evaluatedAtMs.v
      a == t + config.latencyOffsetMs
  IN  <<Abs(a - SweptOccurrenceTimeMs(i, t)), SweptOccurrenceTimeMs(i, t),
        chart.notes[i].sourceOrder>>

LexLeq(x, y) ==
  \/ x[1] < y[1]
  \/ x[1] = y[1] /\ x[2] < y[2]
  \/ x[1] = y[1] /\ x[2] = y[2] /\ x[3] <= y[3]

\* the input event is the judgement of note j at its next unresolved occurrence
JudgesNote(ev, j, input) ==
  /\ ev.note.id = chart.notes[j].id
  /\ ev.note.lane = chart.notes[j].lane
  /\ ev.note.loopIndex = SweptCursor(j, input.evaluatedAtMs.v)
  /\ ev.note.occurrenceTimeMs = SweptOccurrenceTimeMs(j, input.evaluatedAtMs.v)
  /\ ev.timingErrorMs = ev.adjustedTimeMs - ev.note.occurrenceTimeMs

\* C5: evaluate judges, among the notes the lane filter admits whose next
\* unresolved occurrence after the sweep is within timingWindowMs of the
\* adjusted time, the one with the least (|timingErrorMs|, occurrenceTimeMs,
\* sourceOrder) in lexicographic order; when there is no such note it judges
\* none and returns the auto-miss events only.
C5_CandidateIsLexicographicMinimum ==
  \A input \in FiniteEvaluateInputs :
    LET evs == Evaluated(input).events
        inputs == InputEventsOf(evs)
    IN  IF Eligible(input) = {}
          THEN inputs = <<>> /\ evs = Advanced(input.evaluatedAtMs.v).events
          ELSE /\ Len(inputs) = 1
               /\ \E j \in Eligible(input) :
                    /\ \A i \in Eligible(input) :
                         LexLeq(CandidateKey(j, input), CandidateKey(i, input))
                    /\ JudgesNote(inputs[1], j, input)

\* C5 happens: an engine that has judged before is asked about a time with
\* two eligible notes of the same |timingErrorMs|; the one judged is the one
\* whose occurrence is earlier, or of the same occurrence time and listed
\* first in the source chart.
C5_Witness ==
  /\ \E i \in NoteIndexes : nextLoopIndexByNote[i] >= 1
  /\ \E input \in FiniteEvaluateInputs : \E i, j \in Eligible(input) :
       LET inputs == InputEventsOf(Evaluated(input).events)
           ki == CandidateKey(i, input)
           kj == CandidateKey(j, input)
       IN  /\ i # j
           /\ ki[1] = kj[1]
           /\ ki[2] < kj[2] \/ (ki[2] = kj[2] /\ ki[3] < kj[3])
           /\ Len(inputs) = 1
           /\ inputs[1].note.id = chart.notes[i].id

\* the three evaluate calls of the engine tests on the scenario chart
ScenarioPerfect == evaluate(ScenarioEngine, 1000, Num(2800), <<"E">>)

ScenarioGood == evaluate(ScenarioPerfect.engine, 3000, Num(2825), <<"E">>)

ScenarioMiss == evaluate(ScenarioGood.engine, 5000, Num(2860), <<"E">>)

ScenarioJudgements ==
  /\ Len(ScenarioPerfect.events) = 1
  /\ ScenarioPerfect.events[1].judgement = "Perfect"
  /\ ScenarioPerfect.events[1].reason = "perfect-window"
  /\ Len(ScenarioGood.events) = 1
  /\ ScenarioGood.events[1].judgement = "Good"
  /\ ScenarioGood.events[1].reason = "good-window"
  /\ ScenarioGood.events[1].pitchErrorCents = <<25>>
  /\ Len(ScenarioMiss.events) = 1
  /\ ScenarioMiss.events[1].judgement = "Miss"
  /\ ScenarioMiss.events[1].reason = "pitch-window"
  /\ ScenarioMiss.events[1].pitchErrorCents = <<60>>

\* the judgement the windows of the configuration give to an input event
\* whose pitch was pitchCents
JudgedByWindows(ev, pitchCents) ==
  LET pitchErrorCents == pitchCents - ev.note.targetCents
      timingErrorMs == ev.adjustedTimeMs - ev.note.occurrenceTimeMs
      perfect == /\ Abs(timingErrorMs) <= config.perfectTimingWindowMs
                 /\ Abs(pitchErrorCents) <= config.perfectPitchWindowCents
      good == /\ Abs(timingErrorMs) <= config.timingWindowMs
              /\ Abs(pitchErrorCents) <= config.pitchWindowCents
  IN  /\ ev.pitchErrorCents = <<pitchErrorCents>>
      /\ ev.timingErrorMs = timingErrorMs
      /\ ev.judgement = "Perfect" <=> perfect
      /\ ev.judgement = "Perfect" => ev.reason = "perfect-window"
      /\ ev.judgement = "Good" <=> (~perfect /\ good)
      /\ ev.judgement = "Good" => ev.reason = "good-window"
      /\ ev.judgement \in {"Perfect", "Good", "Miss"}
      /\ (~perfect /\ ~good /\ Abs(pitchErrorCents) > config.pitchWindowCents)
           => (ev.judgement = "Miss" /\ ev.reason = "pitch-window")

\* C6: the input event of an evaluate call with a finite pitch has
\* pitchErrorCents = pitchCents - targetCents and is Perfect (perfect-window)
\* iff both errors are within the perfect windows, otherwise Good
\* (good-window) iff both are within the timing and pitch windows, otherwise
\* Miss, with reason pitch-window when the pitch error exceeds pitchWindowCents.
C6_JudgementFollowsTheWindows ==
  /\ ScenarioJudgements
  /\ \A input \in FiniteEvaluateInputs :
       (input.pitchCents.def /\ input.pitchCents.fin) =>
         \A k \in DOMAIN Evaluated(input).events :
           Evaluated(input).events[k].source = "input" =>
             JudgedByWindows(Evaluated(input).events[k], input.pitchCents.v)

\* C6 happens: in an engine that has judged before, three samples of the same
\* time and lane get a Perfect with the pitch error on the edge of the perfect
\* window, a Good with it on the edge of the pitch window, and a pitch-window
\* Miss just beyond.
C6_Witness ==
  /\ tally.perfect + tally.good + tally.miss >= 1
  /\ \E p, g, m \in FiniteEvaluateInputs :
       LET ip == InputEventsOf(Evaluated(p).events)
           ig == InputEventsOf(Evaluated(g).events)
           im == InputEventsOf(Evaluated(m).events)
       IN  /\ p.evaluatedAtMs = g.evaluatedAtMs /\ g.evaluatedAtMs = m.evaluatedAtMs
           /\ p.lane = g.lane /\ g.lane = m.lane
           /\ Len(ip) = 1 /\ Len(ig) = 1 /\ Len(im) = 1
           /\ ip[1].judgement = "Perfect"
           /\ Abs(ip[1].pitchErrorCents[1]) = config.perfectPitchWindowCents
           /\ ig[1].judgement = "Good"
           /\ Abs(ig[1].pitchErrorCents[1]) = config.pitchWindowCents
           /\ im[1].judgement = "Miss" /\ im[1].reason = "pitch-window"
           /\ Abs(im[1].pitchErrorCents[1]) = config.pitchWindowCents + 1

\* C7: in the events one evaluate call returns at most one has source input,
\* it is the last one, and all events before it have source auto-miss.
C7_InputEventIsLast ==
  \A input \in EvaluateInputs :
    input.evaluatedAtMs.fin =>
      LET evs == Evaluated(input).events
      IN  /\ \A k \in DOMAIN evs :
               /\ evs[k].source \in {"auto-miss", "input"}
               /\ evs[k].source = "input" => k = Len(evs)
          /\ Len(InputEventsOf(evs)) <= 1

\* C7 happens: one evaluate call of an engine that has judged before returns
\* two or more auto-misses followed by the input event.
C7_Witness ==
  /\ \E i \in NoteIndexes : nextLoopIndexByNote[i] >= 1
  /\ \E input \in FiniteEvaluateInputs :
       LET evs == Evaluated(input).events
       IN  /\ Len(evs) >= 3
           /\ evs[Len(evs)].source = "input"
           /\ \A k \in 1..(Len(evs) - 1) : evs[k].source = "auto-miss"

\* no input event of evs judges the occurrence (id, loopIndex)
NotJudgedIn(evs, id, loopIndex) ==
  \A k \in DOMAIN evs :
    evs[k].source = "input" => ~(evs[k].note.id = id /\ evs[k].note.loopIndex = loopIndex)

\* the scenario engine gets a sample without pitch at the note's time, as in
\* the engine tests
ScenarioPitchMissing ==
  LET result == evaluate(ScenarioEngine, 1000, Undefined, <<"E">>)
      stats == getStats(result.engine)
  IN  /\ Len(result.events) = 1
      /\ result.events[1].judgement = "Miss"
      /\ result.events[1].reason = "pitch-missing"
      /\ result.events[1].pitchErrorCents = <<>>
      /\ stats.miss = 1 /\ stats.total = 1

\* C8: an evaluate call without a finite pitch (undefined, null or NaN) that
\* finds a candidate returns, after the auto-misses, one input event: a Miss
\* with reason pitch-missing, the candidate's timingErrorMs and no
\* pitchErrorCents; it counts that event as one miss, moves the candidate's
\* cursor past the occurrence, and no later sample is judged against the
\* same occurrence.
C8_PitchMissingIsAMiss ==
  /\ ScenarioPitchMissing
  /\ \A input \in FiniteEvaluateInputs :
       (~(input.pitchCents.def /\ input.pitchCents.fin) /\ Eligible(input) # {}) =>
         LET result == Evaluated(input)
             swept == Advanced(input.evaluatedAtMs.v)
             evs == result.events
             last == evs[Len(evs)]
         IN  /\ Len(evs) = Len(swept.events) + 1
             /\ \A k \in 1..Len(swept.events) : evs[k] = swept.events[k]
             /\ last.judgement = "Miss"
             /\ last.source = "input"
             /\ last.reason = "pitch-missing"
             /\ last.pitchErrorCents = <<>>
             /\ last.timingErrorMs = last.adjustedTimeMs - last.note.occurrenceTimeMs
             /\ \E j \in Eligible(input) :
                  /\ JudgesNote(last, j, input)
                  /\ result.engine.nextLoopIndexByNote[j] = last.note.loopIndex + 1
                  /\ \A i \in NoteIndexes \ {j} :
                       result.engine.nextLoopIndexByNote[i] = swept.engine.nextLoopIndexByNote[i]
             /\ result.engine.missCount = swept.engine.missCount + 1
             /\ result.engine.perfectCount = swept.engine.perfectCount
             /\ result.engine.goodCount = swept.engine.goodCount
             /\ \A later \in FiniteEvaluateInputs :
                  NotJudgedIn(evaluate(result.engine, later.evaluatedAtMs.v, later.pitchCents,
                                       later.lane).events,
                              last.note.id, last.note.loopIndex)

\* C8 happens: an engine that has judged before gets a sample with a NaN
\* pitch and one with no pitch, for a time at which a note is a candidate and
\* with a nonzero timing error: each returns the pitch-missing Miss.
C8_Witness ==
  /\ tally.perfect + tally.good + tally.miss >= 1
  /\ \E u, n \in FiniteEvaluateInputs :
       LET iu == InputEventsOf(Evaluated(u).events)
           in == InputEventsOf(Evaluated(n).events)
       IN  /\ u.pitchCents = Undefined /\ n.pitchCents = NaN
           /\ u.evaluatedAtMs = n.evaluatedAtMs /\ u.lane = n.lane
           /\ Len(iu) = 1 /\ Len(in) = 1
           /\ iu[1].reason = "pitch-missing" /\ in[1].reason = "pitch-missing"
           /\ iu[1].timingErrorMs # 0
           /\ Len(Evaluated(u).events) >= 2

\* C9: getStats reports as perfect, good and miss the numbers of Perfect,
\* Good and Miss events that evaluate and advance have returned since the
\* construction or the last reset, resetStats or setChart, and their sum as
\* total; evaluate and advance never lower a counter, and leave all of them
\* alone when they return no event.
C9_StatsCountReturnedEvents ==
  LET stats == getStats(Engine)
  IN  /\ stats.perfect = tally.perfect
      /\ stats.good = tally.good
      /\ stats.miss = tally.miss
      /\ stats.total = stats.perfect + stats.good + stats.miss
      /\ \A input \in FiniteEvaluateInputs :
           LET result == Evaluated(input)
               after == getStats(result.engine)
           IN  /\ after.perfect = stats.perfect + CountOf(result.events, "Perfect")
               /\ after.good = stats.good + CountOf(result.events, "Good")
               /\ after.miss = stats.miss + CountOf(result.events, "Miss")
               /\ result.events = <<>> => after = stats
      /\ \A t \in FiniteTimes :
           LET result == Advanced(t)
               after == getStats(result.engine)
           IN  /\ after.perfect = stats.perfect
               /\ after.good = stats.good
               /\ after.miss = stats.miss + Len(result.events)
               /\ result.events = <<>> => after = stats
      /\ getStats(resetStats(Engine)).total = 0
      /\ getStats(reset(Engine)).total = 0

\* C9 happens: after a resetStats (more events were judged than are counted)
\* the engine has returned a Perfect, a Good and two or more Miss events, and
\* some call from here returns no event at all.
C9_Witness ==
  /\ tally.perfect >= 1 /\ tally.good >= 1 /\ tally.miss >= 2
  /\ \E i \in NoteIndexes :
       nextLoopIndexByNote[i] > tally.perfect + tally.good + tally.miss
  /\ \E input \in FiniteEvaluateInputs : Evaluated(input).events = <<>>

\* after the three scenario calls: 1 Perfect, 1 Good, 1 Miss, accuracy 0.5
ScenarioStats ==
  LET stats == getStats(ScenarioMiss.engine)
  IN  /\ stats.perfect = 1 /\ stats.good = 1 /\ stats.miss = 1 /\ stats.total = 3
      /\ 2 * stats.accuracyNum = stats.accuracyDen

\* C10: the accuracy of getStats is 0 when nothing was judged and otherwise
\* (perfect + 0.5 * good) / total, that is 2 * accuracy * total =
\* 2 * perfect + good; it lies in [0, 1] and is 1 only when there was a
\* judgement and every judgement was Perfect.
C10_AccuracyIsWeightedShare ==
  LET stats == getStats(Engine)
  IN  /\ ScenarioStats
      /\ stats.accuracyDen > 0
      /\ stats.total = 0 => stats.accuracyNum = 0
      /\ stats.total > 0 =>
           2 * stats.accuracyNum * stats.total
             = (2 * stats.perfect + stats.good) * stats.accuracyDen
      /\ 0 <= stats.accuracyNum /\ stats.accuracyNum <= stats.accuracyDen
      /\ stats.accuracyNum = stats.accuracyDen =>
           (stats.total > 0 /\ stats.good = 0 /\ stats.miss = 0)

\* C10 happens: the engine has counted a Perfect, a Good and a Miss, and
\* reports an accuracy strictly between 0 and 1.
C10_Witness ==
  LET stats == getStats(Engine)
  IN  /\ stats.perfect >= 1 /\ stats.good >= 1 /\ stats.miss >= 1
      /\ 0 < stats.accuracyNum /\ stats.accuracyNum < stats.accuracyDen

\* C11: a setChart call that succeeds leaves the normalization of its
\* argument as the chart, one cursor per note of it, every cursor 0, the
\* three counters 0, and the configuration (latencyOffsetMs included) and
\* the tuning as they were, whatever was judged on the chart before.
C11_SetChartStartsAfresh ==
  \A rawChart \in ValidCharts \cup InvalidCharts :
    LET result == setChart(Engine, rawChart)
        normalized == normalizeChart(rawChart, openStringMidiByLane)
    IN  /\ result.ok <=> normalized.ok
        /\ result.ok =>
             /\ result.value.chart = normalized.value
             /\ DOMAIN result.value.nextLoopIndexByNote = 1..Len(normalized.value.notes)
             /\ \A i \in 1..Len(normalized.value.notes) :
                  result.value.nextLoopIndexByNote[i] = 0
             /\ result.value.perfectCount = 0
             /\ result.value.goodCount = 0
             /\ result.value.missCount = 0
             /\ getStats(result.value).total = 0
             /\ result.value.config = config
             /\ result.value.openStringMidiByLane = openStringMidiByLane

\* C11 happens: an engine with a changed latency offset and timing window
\* that has counted judgements and moved a cursor gets a chart with another
\* number of notes, and accepts it.
C11_Witness ==
  /\ perfectCount + goodCount >= 1 /\ missCount >= 1
  /\ \E i \in NoteIndexes : nextLoopIndexByNote[i] >= 2
  /\ config.latencyOffsetMs # DEFAULT_LATENCY_OFFSET_MS
  /\ config.timingWindowMs # DEFAULT_TIMING_WINDOW_MS
  /\ \E rawChart \in ValidCharts :
       /\ setChart(Engine, rawChart).ok
       /\ Len(setChart(Engine, rawChart).value.chart.notes) # Len(chart.notes)

\* the current configuration, given as the overrides of a constructor call
ConfigAsOverrides == [f \in ConfigFields |-> Num(config[f])]

\* C12: reset() leaves every counter and every cursor 0 and the chart, the
\* tuning and the configuration as they were; the engine is then the one the
\* constructor makes from the same chart and the current configuration, so
\* every later call returns from both the same events and leaves the same
\* counters.
C12_ResetIsANewEngine ==
  LET fresh == reset(Engine)
  IN  /\ fresh.chart = chart
      /\ fresh.config = config
      /\ fresh.openStringMidiByLane = openStringMidiByLane
      /\ DOMAIN fresh.nextLoopIndexByNote = NoteIndexes
      /\ \A i \in NoteIndexes : fresh.nextLoopIndexByNote[i] = 0
      /\ getStats(fresh).perfect = 0 /\ getStats(fresh).good = 0 /\ getStats(fresh).miss = 0
      /\ \E rawChart \in AcceptedCharts :
           LET constructed == construct(rawChart, ConfigAsOverrides)
           IN  /\ constructed.ok
               /\ constructed.value.chart = chart
               /\ constructed.value = fresh
               /\ \A input \in FiniteEvaluateInputs :
                    LET mine == evaluate(fresh, input.evaluatedAtMs.v, input.pitchCents, input.lane)
                        other == evaluate(constructed.value, input.evaluatedAtMs.v,
                                          input.pitchCents, input.lane)
                    IN  /\ mine.events = other.events
                        /\ getStats(mine.engine) = getStats(other.engine)
                        /\ mine.engine = other.engine

\* C12 happens: an engine with a changed configuration has counted
\* judgements and moved a cursor past the second occurrence, and a call that
\* returns nothing now returns events after reset().
C12_Witness ==
  /\ perfectCount + goodCount >= 1 /\ missCount >= 1
  /\ \E i \in NoteIndexes : nextLoopIndexByNote[i] >= 2
  /\ config.latencyOffsetMs # DEFAULT_LATENCY_OFFSET_MS
  /\ config.timingWindowMs # DEFAULT_TIMING_WINDOW_MS
  /\ \E input \in FiniteEvaluateInputs :
       /\ Evaluated(input).events = <<>>
       /\ evaluate(reset(Engine), input.evaluatedAtMs.v, input.pitchCents,
                   input.lane).events # <<>>

\* no event of evs is of an occurrence that was judged since the last
\* cursor reset
NothingJudgedAgain(evs) ==
  \A k \in DOMAIN evs : \A i \in NoteIndexes :
    evs[k].note.id = chart.notes[i].id =>
      \A m \in DOMAIN judged[i] : judged[i][m] # evs[k].note.loopIndex

\* C13: resetStats() sets the three counters to 0 and leaves the cursors,
\* the chart, the tuning and the configuration as they were; the next call
\* returns the events it would have returned without it, none of them for an
\* occurrence judged or auto-missed before.
C13_ResetStatsKeepsProgress ==
  LET cleared == resetStats(Engine)
  IN  /\ cleared.perfectCount = 0 /\ cleared.goodCount = 0 /\ cleared.missCount = 0
      /\ getStats(cleared).total = 0
      /\ cleared.nextLoopIndexByNote = nextLoopIndexByNote
      /\ cleared.chart = chart
      /\ cleared.config = config
      /\ cleared.openStringMidiByLane = openStringMidiByLane
      /\ \A input \in FiniteEvaluateInputs :
           LET result == evaluate(cleared, input.evaluatedAtMs.v, input.pitchCents, input.lane)
           IN  /\ result.events = Evaluated(input).events
               /\ result.engine.nextLoopIndexByNote = Evaluated(input).engine.nextLoopIndexByNote
               /\ NothingJudgedAgain(result.events)
               /\ getStats(result.engine).total = Len(result.events)
      /\ \A t \in FiniteTimes :
           /\ advance(cleared, t).events = Advanced(t).events
           /\ NothingJudgedAgain(advance(cleared, t).events)

\* C13 happens: the engine has counted judgements of a note, and after
\* resetStats() a call returns an auto-miss and an input event of later
\* occurrences of that note, which are all that the counters then hold.
C13_Witness ==
  /\ perfectCount + goodCount >= 1 /\ missCount >= 1
  /\ \E i \in NoteIndexes : \E input \in FiniteEvaluateInputs :
       LET result == evaluate(resetStats(Engine), input.evaluatedAtMs.v,
                              input.pitchCents, input.lane)
           mine == EventsOfNote(result.events, i)
       IN  /\ Len(judged[i]) >= 2
           /\ Len(mine) >= 2
           /\ mine[1].source = "auto-miss"
           /\ mine[1].note.loopIndex = Len(judged[i])
           /\ mine[Len(mine)].source = "input"
           /\ getStats(result.engine).total = Len(result.events)

\* C14: advance(t) returns auto-miss events only and leaves the perfect and
\* good counters, the chart and the configuration alone; the auto-misses of
\* an evaluate call at the same t from the same state are the events of
\* advance(t), its cursors those of advance(t) but for the judged note, one
\* further; an evaluate call without an input event returns what advance(t)
\* returns and leaves the state advance(t) leaves.
C14_AdvanceIsTheSweep ==
  \A t \in FiniteTimes :
    LET adv == Advanced(t)
    IN  /\ \A k \in DOMAIN adv.events :
             /\ adv.events[k].source = "auto-miss"
             /\ adv.events[k].judgement = "Miss"
        /\ adv.engine.perfectCount = perfectCount
        /\ adv.engine.goodCount = goodCount
        /\ adv.engine.missCount = missCount + Len(adv.events)
        /\ adv.engine.chart = chart
        /\ adv.engine.config = config
        /\ \A p \in PitchInputs : \A l \in LaneInputs :
             LET result == evaluate(Engine, t, p, l)
                 inputs == InputEventsOf(result.events)
             IN  /\ AutoMissesOf(result.events) = adv.events
                 /\ inputs = <<>> => result = adv
                 /\ inputs # <<>> =>
                      \A i \in NoteIndexes :
                        result.engine.nextLoopIndexByNote[i] =
                          adv.engine.nextLoopIndexByNote[i]
                            + (IF inputs[1].note.id = chart.notes[i].id THEN 1 ELSE 0)

\* C14 happens: from a state with progress, advance(t) returns auto-misses
\* for a t at which one evaluate call judges a note after the same
\* auto-misses and another, with a lane filter, finds no candidate.
C14_Witness ==
  /\ \E i \in NoteIndexes : nextLoopIndexByNote[i] >= 1
  /\ \E t \in FiniteTimes : \E p \in PitchInputs :
       /\ Len(Advanced(t).events) >= 1
       /\ InputEventsOf(evaluate(Engine, t, p, <<>>).events) # <<>>
       /\ evaluate(Engine, t, p, <<"A">>) = Advanced(t)

\* the engine of the state with latencyOffsetMs set to 0
WithoutLatency == setLatencyOffsetMs(Engine, Num(0)).value

\* the events agree in everything but evaluatedAtMs, which is shifted by d
SameButShifted(evs, shifted, d) ==
  /\ Len(evs) = Len(shifted)
  /\ \A k \in DOMAIN evs :
       /\ shifted[k] = [evs[k] EXCEPT !.evaluatedAtMs = @ + d]
       /\ evs[k].adjustedTimeMs = evs[k].evaluatedAtMs + d
       /\ shifted[k].adjustedTimeMs = shifted[k].evaluatedAtMs

\* the engines agree in everything but latencyOffsetMs, which is 0 in the second
SameButLatency(e, zeroed) ==
  /\ zeroed.config.latencyOffsetMs = 0
  /\ zeroed = [e EXCEPT !.config.latencyOffsetMs = 0]

\* the engine tests' sample 50 ms early with a latency offset of 50 ms
ScenarioLatency ==
  LET delayed == setLatencyOffsetMs(ScenarioEngine, Num(50)).value
      evs == evaluate(delayed, 950, Num(2800), <<"E">>).events
  IN  /\ getLatencyOffsetMs(delayed) = 50
      /\ Len(evs) = 1
      /\ evs[1].judgement = "Perfect"
      /\ evs[1].adjustedTimeMs = 1000
      /\ evs[1].timingErrorMs = 0

\* C15: with latencyOffsetMs = d, of either sign, evaluate and advance at
\* evaluatedAtMs = t return the events, and make the cursor and counter
\* changes, of the same call at t + d with latencyOffsetMs = 0; the events
\* differ in their evaluatedAtMs only.
C15_LatencyShiftsTheEvaluationPoint ==
  /\ ScenarioLatency
  /\ \A input \in FiniteEvaluateInputs :
       LET d == config.latencyOffsetMs
           mine == Evaluated(input)
           other == evaluate(WithoutLatency, input.evaluatedAtMs.v + d, input.pitchCents,
                             input.lane)
       IN  /\ SameButShifted(mine.events, other.events, d)
           /\ SameButLatency(mine.engine, other.engine)
  /\ \A t \in FiniteTimes :
       LET d == config.latencyOffsetMs
       IN  /\ SameButShifted(Advanced(t).events, advance(WithoutLatency, t + d).events, d)
           /\ SameButLatency(Advanced(t).engine, advance(WithoutLatency, t + d).engine)

\* C15 happens: with a negative latency offset an evaluate call returns an
\* auto-miss and an input event that the same call would not return with
\* latencyOffsetMs = 0.
C15_Witness ==
  /\ config.latencyOffsetMs < 0
  /\ \E input \in FiniteEvaluateInputs :
       LET evs == Evaluated(input).events
       IN  /\ Len(evs) >= 2
           /\ evs[1].source = "auto-miss"
           /\ evs[Len(evs)].source = "input"
           /\ evs[Len(evs)].timingErrorMs # 0
           /\ Len(evaluate(WithoutLatency, input.evaluatedAtMs.v, input.pitchCents,
                           input.lane).events) # Len(evs)

\* the windows are positive and the perfect ones within the others
ValidConfig(c) ==
  /\ c.timingWindowMs > 0 /\ c.pitchWindowCents > 0
  /\ c.perfectTimingWindowMs > 0 /\ c.perfectPitchWindowCents > 0
  /\ c.perfectTimingWindowMs <= c.timingWindowMs
  /\ c.perfectPitchWindowCents <= c.pitchWindowCents

\* values tried for a field of the configuration
ProbeSlots ==
  {NaN} \cup {Num(x) : x \in {-TimeStep, 0, DEFAULT_PERFECT_PITCH_WINDOW_CENTS,
                              DEFAULT_PITCH_WINDOW_CENTS, TimeStep, 2 * TimeStep, 3 * TimeStep}}

\* overrides of one field, and of the two timing windows together
ConfigProbes ==
  {Override(f, slot) : f \in ConfigFields, slot \in ProbeSlots}
  \cup {[NoOverrides EXCEPT !.timingWindowMs = a, !.perfectTimingWindowMs = b] :
          a \in ProbeSlots, b \in ProbeSlots}
  \cup ConfigOverrideInputs

\* the current configuration with the given fields of the overrides
Merged(overrides) ==
  [f \in ConfigFields |-> IF overrides[f].has THEN overrides[f] ELSE Num(config[f])]

MergedIsValid(overrides) ==
  /\ \A f \in ConfigFields : Merged(overrides)[f].fin
  /\ ValidConfig([f \in ConfigFields |-> Merged(overrides)[f].v])

\* C16: in every state the four windows are positive, perfectTimingWindowMs
\* <= timingWindowMs and perfectPitchWindowCents <= pitchWindowCents;
\* updateConfig and setLatencyOffsetMs accept exactly the overrides whose
\* merge with the current configuration is finite and valid, and throw for
\* the others, so lowering timingWindowMs alone below the current
\* perfectTimingWindowMs throws.
C16_ConfigStaysValid ==
  /\ ValidConfig(config)
  /\ ValidConfig(createScoringConfig(NoOverrides).value)
  /\ \A overrides \in ConfigProbes :
       LET result == updateConfig(Engine, overrides)
       IN  /\ result.ok <=> MergedIsValid(overrides)
           /\ result.ok =>
                /\ ValidConfig(result.value.config)
                /\ result.value =
                     [Engine EXCEPT !.config = [f \in ConfigFields |-> Merged(overrides)[f].v]]
  /\ \A f \in ConfigFields :
       LET result == updateConfig(Engine, Override(f, Undefined))
       IN  result.ok => ValidConfig(result.value.config)
  /\ \A x \in {TimeStep, 2 * TimeStep} :
       x < config.perfectTimingWindowMs =>
         updateConfig(Engine, Override("timingWindowMs", Num(x))).error
           = "perfectTimingWindowMs must be <= timingWindowMs."
  /\ \A offsetMs \in ProbeSlots :
       LET result == setLatencyOffsetMs(Engine, offsetMs)
       IN  /\ result.ok <=> offsetMs.fin
           /\ result.ok =>
                result.value = [Engine EXCEPT !.config.latencyOffsetMs = offsetMs.v]

\* C16 happens: the configuration was updated to perfectTimingWindowMs =
\* timingWindowMs above the default, and an override of timingWindowMs alone
\* that createScoringConfig accepts by itself is rejected for the conflict,
\* while one of pitchWindowCents is accepted.
C16_Witness ==
  /\ config.perfectTimingWindowMs > DEFAULT_PERFECT_TIMING_WINDOW_MS
  /\ config.latencyOffsetMs # DEFAULT_LATENCY_OFFSET_MS
  /\ createScoringConfig(Override("timingWindowMs", Num(TimeStep))).ok
  /\ ~updateConfig(Engine, Override("timingWindowMs", Num(TimeStep))).ok
  /\ updateConfig(Engine, Override("pitchWindowCents", Num(DEFAULT_PERFECT_PITCH_WINDOW_CENTS))).ok

\* C17: getConfig() returns a new object each time: the engine's config
\* object is never one the caller holds, so whatever the caller writes into
\* the objects it got from getConfig or passed to the constructor or to
\* updateConfig, the engine's config keeps the valid values the last update
\* left, and every getConfig() since that update returned those same values.
C17_GetConfigReturnsACopy ==
  /\ configRef \notin held
  /\ objects[configRef] = SlotsOf(config)
  /\ ValidConfig(HeapEngine.config)
  /\ returned \subseteq {SlotsOf(config)}
  /\ getConfig(HeapEngine) = config

\* C17 happens: the latency offset was set, the caller then got the config
\* twice and wrote a window of 1 ms into one of the objects and NaN into the
\* other, and the engine's config is still what the update left.
C17_Witness ==
  /\ config.latencyOffsetMs # DEFAULT_LATENCY_OFFSET_MS
  /\ returned = {SlotsOf(config)}
  /\ \E a, b \in held :
       /\ a # b
       /\ \A f \in ConfigFields : objects[a][f].has /\ objects[b][f].has
       /\ objects[a].timingWindowMs = Num(1)
       /\ objects[b].timingWindowMs = NaN

\* non-decreasing in (timeMs, sourceOrder)
InNoteOrder(notes) ==
  \A i, j \in DOMAIN notes :
    i < j => \/ notes[i].timeMs < notes[j].timeMs
             \/ notes[i].timeMs = notes[j].timeMs /\ notes[i].sourceOrder < notes[j].sourceOrder

\* every note of the input chart is there once, under its index in the input
SameNotesAs(notes, rawChart) ==
  /\ Len(notes) = Len(rawChart.notes)
  /\ \A k \in DOMAIN rawChart.notes :
       \E i \in DOMAIN notes :
         /\ notes[i].sourceOrder = k - 1
         /\ notes[i].lane = rawChart.notes[k].lane
         /\ (notes[i].timeMs - rawChart.notes[k].timeMs.v) % rawChart.loopDurationMs.v = 0

\* times before, in and after the loop of 4 * TimeStep
ProbeTimes == {-(3 * TimeStep), 0, TimeStep, 5 * TimeStep}

\* three notes in every order of those times
ChartProbes ==
  {RawChart(4 * TimeStep, <<RawNote("E", a, FretOfAOnE), RawNote("A", b, 0),
                            RawNote("E", c, FretOfAOnE)>>) :
     a \in ProbeTimes, b \in ProbeTimes, c \in ProbeTimes}
  \cup ValidCharts

\* normalizeChart puts every probe chart in order
ProbesInNoteOrder ==
  \A rawChart \in ChartProbes :
    LET normalized == normalizeChart(rawChart, resolveOpenStringMidiByLane)
    IN  /\ normalized.ok
        /\ InNoteOrder(normalized.value.notes)
        /\ SameNotesAs(normalized.value.notes, rawChart)
        /\ construct(rawChart, NoOverrides).value.chart = normalized.value

\* C18: the notes of the engine are in non-decreasing (timeMs, sourceOrder)
\* order, timeMs the wrapped time and sourceOrder the index in the input
\* chart, after the constructor and after every setChart; evaluate, advance,
\* reset, resetStats and the config updates leave the note list as it is.
C18_NotesStaySorted ==
  /\ ProbesInNoteOrder
  /\ InNoteOrder(chart.notes)
  /\ \A rawChart \in ValidCharts :
       /\ setChart(Engine, rawChart).ok
       /\ InNoteOrder(setChart(Engine, rawChart).value.chart.notes)
       /\ SameNotesAs(setChart(Engine, rawChart).value.chart.notes, rawChart)
  /\ \A input \in FiniteEvaluateInputs : Evaluated(input).engine.chart = chart
  /\ \A t \in FiniteTimes : Advanced(t).engine.chart = chart
  /\ reset(Engine).chart = chart
  /\ resetStats(Engine).chart = chart
  /\ \A overrides \in ConfigOverrideInputs :
       updateConfig(Engine, overrides).ok => updateConfig(Engine, overrides).value.chart = chart
  /\ \A offsetMs \in LatencyOffsetInputs :
       setLatencyOffsetMs(Engine, offsetMs).ok =>
         setLatencyOffsetMs(Engine, offsetMs).value.chart = chart

\* C18 happens: the engine holds, with progress made, a chart whose second
\* input note comes first for its earlier wrapped time, and setChart with
\* two notes of equal wrapped time keeps them in input order.
C18_Witness ==
  /\ Len(chart.notes) = 2
  /\ chart.notes[1].sourceOrder = 1
  /\ chart.notes[1].timeMs < chart.notes[2].timeMs
  /\ nextLoopIndexByNote[1] >= 1 /\ nextLoopIndexByNote[2] >= 1
  /\ LET same == setChart(Engine, SameTimeChart).value.chart.notes
     IN  /\ same[1].timeMs = same[2].timeMs
         /\ same[1].sourceOrder = 0 /\ same[2].sourceOrder = 1

\* the loop durations the wrap is tried with
WrapLoops == {2000, 4 * TimeStep}

\* times up to two loops before and after the loop, on and off its edges
WrapTimes(loopDurationMs) ==
  {k * loopDurationMs + r : k \in -2..2, r \in {0, 1, 10, TimeStep, loopDurationMs - 1}}

\* the timeMs the engine holds for a lone note given with timeMs
NormalizedTimeMs(timeMs, loopDurationMs) ==
  normalizeChart(RawChart(loopDurationMs, <<RawNote("E", timeMs, 0)>>),
                 resolveOpenStringMidiByLane).value.notes[1].timeMs

WrapsIntoTheLoop ==
  /\ NormalizedTimeMs(-10, 2000) = 1990
  /\ NormalizedTimeMs(2100, 2000) = 100
  /\ \A loopDurationMs \in WrapLoops : \A timeMs \in WrapTimes(loopDurationMs) :
       LET wrapped == NormalizedTimeMs(timeMs, loopDurationMs)
       IN  /\ 0 <= wrapped /\ wrapped < loopDurationMs
           /\ \E k \in -3..3 : timeMs = wrapped + k * loopDurationMs
           /\ (0 <= timeMs /\ timeMs < loopDurationMs) => wrapped = timeMs

\* C19: normalization leaves as a note's timeMs the input timeMs modulo
\* loopDurationMs, in [0, loopDurationMs), for a negative input and one at or
\* beyond loopDurationMs alike (-10 becomes 1990 and 2100 becomes 100 in a
\* loop of 2000 ms), and an input already in [0, loopDurationMs) as it is.
C19_TimesWrapIntoTheLoop ==
  /\ WrapsIntoTheLoop
  /\ \A i \in NoteIndexes :
       0 <= chart.notes[i].timeMs /\ chart.notes[i].timeMs < chart.loopDurationMs
  /\ \A rawChart \in ValidCharts :
       LET notes == setChart(Engine, rawChart).value.chart.notes
       IN  \A i \in DOMAIN notes :
             LET given == rawChart.notes[notes[i].sourceOrder + 1].timeMs.v
             IN  /\ 0 <= notes[i].timeMs /\ notes[i].timeMs < rawChart.loopDurationMs.v
                 /\ \E k \in -3..3 : given = notes[i].timeMs + k * rawChart.loopDurationMs.v
                 /\ (0 <= given /\ given < rawChart.loopDurationMs.v) => notes[i].timeMs = given

\* C19 happens: the engine has judged, at their wrapped times, the notes of
\* a chart given with a negative time, and takes a chart with a time beyond
\* the loop.
C19_Witness ==
  /\ \E rawChart \in ValidCharts :
       /\ normalizeChart(rawChart, openStringMidiByLane).value = chart
       /\ \E k \in DOMAIN rawChart.notes : rawChart.notes[k].timeMs.v < 0
  /\ \A i \in NoteIndexes : Len(judged[i]) >= 1
  /\ \E rawChart \in ValidCharts :
       /\ setChart(Engine, rawChart).ok
       /\ \E k \in DOMAIN rawChart.notes :
            rawChart.notes[k].timeMs.v >= rawChart.loopDurationMs.v

\* C20: evaluate and advance throw 'evaluatedAtMs must be a finite number.'
\* for an evaluatedAtMs that is NaN, +Infinity or -Infinity, returning no
\* event, and accept every finite evaluatedAtMs, whatever the calls before.
C20_NonFiniteTimeThrows ==
  /\ \A input \in EvaluateInputs :
       LET result == evaluateInput(Engine, input)
       IN  IF input.evaluatedAtMs \in NonFiniteTimes
             THEN /\ ~result.ok
                  /\ result.error = "evaluatedAtMs must be a finite number."
                  /\ result.value = <<>>
             ELSE /\ result.ok
                  /\ result.value = Evaluated(input)
  /\ \A evaluatedAtMs \in AdvanceInputs :
       LET result == advanceInput(Engine, evaluatedAtMs)
       IN  IF evaluatedAtMs \in NonFiniteTimes
             THEN /\ ~result.ok
                  /\ result.error = "evaluatedAtMs must be a finite number."
                  /\ result.value = <<>>
             ELSE /\ result.ok
                  /\ result.value = Advanced(evaluatedAtMs.v)

\* C20 happens: an earlier call at a late time has moved a cursor past the
\* third occurrence; evaluate and advance at time 0 are accepted and return
\* nothing, and with an infinite time they throw.
C20_Witness ==
  /\ \E i \in NoteIndexes : nextLoopIndexByNote[i] >= 3
  /\ \E input \in EvaluateInputs :
       /\ input.evaluatedAtMs = Num(0)
       /\ evaluateInput(Engine, input).ok
       /\ evaluateInput(Engine, input).value.events = <<>>
  /\ advanceInput(Engine, Num(0)).ok
  /\ ~advanceInput(Engine, PosInfinity).ok
  /\ \E input \in EvaluateInputs :
       input.evaluatedAtMs = NegInfinity /\ ~evaluateInput(Engine, input).ok

---------------------------------------------------------------------------
(* src/src/chart/midi.ts: the numbers of a chart                           *)
(*                                                                         *)
(* A number of a chart (a time in ms, a MIDI note number, a fret, a track  *)
(* index, a bpm) is fixed-point: the integer x * Scale stands for x, so    *)
(* there are fractions for Math.round, Math.floor and Math.ceil to act on. *)
(* A time in seconds is kept in thousandths of that unit: the integer      *)
(* s * 1000 * Scale stands for s seconds, and seconds * 1000 is the same   *)
(* integer read in ms.                                                     *)

\* the parts a whole is divided in
Scale == 4

Fixed(x) == x * Scale

\* Number.isInteger(value)
IsInteger(slot) == slot.fin /\ slot.v % Scale = 0

\* Math.floor(x), Math.ceil(x) and Math.round(x): halves round up
MathFloor(x) == (x \div Scale) * Scale

MathCeil(x) == (0 - ((0 - x) \div Scale)) * Scale

MathRound(x) == ((2 * x + Scale) \div (2 * Scale)) * Scale

MathMax(a, b) == IF a >= b THEN a ELSE b

\* a - b of JavaScript for a finite b: NaN and the infinities stay
JsMinus(a, b) == IF a.fin THEN Num(a.v - b) ELSE IF a.def /\ a.v # 0 THEN a ELSE NaN

\* a < b of JavaScript: false when either is NaN
JsLess(a, b) ==
  IF (~a.fin /\ a.v = 0) \/ (~b.fin /\ b.v = 0) THEN FALSE
  ELSE IF a.fin /\ b.fin THEN a.v < b.v
  ELSE IF a.fin THEN b.v = 1
  ELSE IF b.fin THEN a.v = -1
  ELSE a.v < b.v

\* String(n) for an array index n
Digits == <<"0", "1", "2", "3", "4", "5", "6", "7", "8", "9">>

RECURSIVE IndexString(_)
IndexString(n) ==
  IF n < 10 THEN Digits[n + 1] ELSE IndexString(n \div 10) \o Digits[(n % 10) + 1]

---------------------------------------------------------------------------
(* src/src/chart/midi.ts *)

DEFAULT_BPM == 120

BASS_LANE_ORDER == <<"E", "A", "D", "G">>

LANE_ORDER_INDEX == [E |-> 0, A |-> 1, D |-> 2, G |-> 3]

\* { ok: false, error: { code, message } }
createFailure(code, message) ==
  [ok |-> FALSE, value |-> <<>>, error |-> [code |-> code, message |-> message]]

\* { ok: true, value }
createSuccess(value) == [ok |-> TRUE, value |-> value, error |-> [code |-> "", message |-> ""]]

normalizeMidiNote(midiNote, trackIndex, noteIndex) ==
  LET label == "tracks[" \o IndexString(trackIndex) \o "].notes[" \o IndexString(noteIndex) \o "].midi"
      checked == assertFiniteNumber(midiNote, label)
      normalized == MathRound(midiNote.v)
  IN  IF ~checked.ok THEN checked
      ELSE IF normalized < Fixed(0) \/ normalized > Fixed(127)
        THEN Throw(label \o " must be in the 0-127 range.")
      ELSE Ok(normalized)

\* secondsToMs that fails for a negative value
secondsToMsRejectingNegative(seconds, label) ==
  IF ~seconds.fin THEN Throw(label \o " must be a finite number.")
  ELSE IF seconds.v < 0 THEN Throw(label \o " must be >= 0.")
  ELSE Ok(MathRound(seconds.v))

\* secondsToMs that cuts the fraction off
secondsToMsTruncating(seconds, label) ==
  IF ~seconds.fin THEN Throw(label \o " must be a finite number.")
  ELSE IF seconds.v <= 0 THEN Ok(0)
  ELSE Ok(MathFloor(seconds.v))

secondsToMs(seconds, label) ==
  LET checked == assertFiniteNumber(seconds, label)
  IN  IF ~checked.ok THEN checked
      ELSE IF seconds.v <= 0 THEN Ok(0)
      ELSE Ok(MathRound(seconds.v))

\* a character that String.prototype.trim removes
IsWhiteSpace(c) == c \in {" ", "\t", "\n"}

RECURSIVE trimStart(_)
trimStart(name) ==
  IF name # <<>> /\ IsWhiteSpace(Head(name)) THEN trimStart(Tail(name)) ELSE name

RECURSIVE trimEnd(_)
trimEnd(name) ==
  IF name # <<>> /\ IsWhiteSpace(name[Len(name)])
    THEN trimEnd(SubSeq(name, 1, Len(name) - 1))
    ELSE name

\* a name is the sequence of its characters
normalizeTrackName(name, index) ==
  LET trimmed == trimEnd(trimStart(name))
  IN  IF Len(trimmed) > 0 THEN trimmed
      ELSE <<"T", "r", "a", "c", "k", " ", IndexString(index + 1)>>

\* midi.header.tempos.at(0)?.bpm, when it is a finite positive number
deriveBpm(midi) ==
  IF Len(midi.tempos) > 0 /\ midi.tempos[1].fin /\ midi.tempos[1].v > 0
    THEN midi.tempos[1].v
    ELSE Fixed(DEFAULT_BPM)

\* the first key of left and right that differs decides; 0 is falsy for ||
compareParsedNotes(left, right) ==
  IF left.timeMs.v - right.timeMs.v # 0 THEN left.timeMs.v - right.timeMs.v
  ELSE IF left.durationMs.v - right.durationMs.v # 0 THEN left.durationMs.v - right.durationMs.v
  ELSE left.midi.v - right.midi.v

RECURSIVE insertParsedNote(_, _)
insertParsedNote(sorted, note) ==
  IF sorted = <<>> THEN <<note>>
  ELSE IF compareParsedNotes(note, Head(sorted)) < 0 THEN <<note>> \o sorted
  ELSE <<Head(sorted)>> \o insertParsedNote(Tail(sorted), note)

\* notes.sort(compareParsedNotes): notes that compare equal are equal, so
\* every sorting algorithm returns the same array
RECURSIVE sortParsedNotes(_)
sortParsedNotes(notes) ==
  IF notes = <<>> THEN <<>>
  ELSE insertParsedNote(sortParsedNotes(SubSeq(notes, 1, Len(notes) - 1)), notes[Len(notes)])

\* compareChartNotes that leaves the lane out
compareChartNotesWithoutLane(left, right) ==
  IF left.timeMs.v - right.timeMs.v # 0 THEN left.timeMs.v - right.timeMs.v
  ELSE IF left.durationMs.v - right.durationMs.v # 0 THEN left.durationMs.v - right.durationMs.v
  ELSE left.fret.v - right.fret.v

compareChartNotes(left, right) ==
  IF left.timeMs.v - right.timeMs.v # 0 THEN left.timeMs.v - right.timeMs.v
  ELSE IF left.durationMs.v - right.durationMs.v # 0 THEN left.durationMs.v - right.durationMs.v
  ELSE IF left.fret.v - right.fret.v # 0 THEN left.fret.v - right.fret.v
  ELSE LANE_ORDER_INDEX[left.lane] - LANE_ORDER_INDEX[right.lane]

RECURSIVE insertChartNote(_, _)
insertChartNote(sorted, note) ==
  IF sorted = <<>> THEN <<note>>
  ELSE IF compareChartNotes(note, Head(sorted)) < 0 THEN <<note>> \o sorted
  ELSE <<Head(sorted)>> \o insertChartNote(Tail(sorted), note)

\* notes.sort(compareChartNotes) for finite times: notes that compare equal
\* are equal, so every sorting algorithm returns the same array
RECURSIVE sortChartNotes(_)
sortChartNotes(notes) ==
  IF notes = <<>> THEN <<>>
  ELSE insertChartNote(sortChartNotes(SubSeq(notes, 1, Len(notes) - 1)), notes[Len(notes)])

\* the open strings of the conversion: an override is rounded.  overrides is
\* <<>> for undefined and <<o>> for the object o
midi_resolveOpenStringMidiByLane(overrides) ==
  LET given == overrides[1]
      NotFinite(lane) == given[lane].def /\ ~given[lane].fin
      thrown == SelectSeq(BASS_LANE_ORDER, NotFinite)
  IN  IF overrides = <<>>
        THEN Ok([lane \in LANE_NAME_SET |-> Fixed(DEFAULT_OPEN_STRING_MIDI_BY_LANE[lane])])
      ELSE IF thrown # <<>>
        THEN Throw("openStringMidiByLane." \o Head(thrown) \o " must be a finite number.")
      ELSE Ok([lane \in LANE_NAME_SET |->
                 IF given[lane].def THEN MathRound(given[lane].v)
                 ELSE Fixed(DEFAULT_OPEN_STRING_MIDI_BY_LANE[lane])])

\* Ok of the bound as a number of JavaScript (a slot), or the Throw
resolveMaxFret(maxFret) ==
  IF ~maxFret.def THEN Ok(PosInfinity)
  ELSE IF ~maxFret.fin THEN Throw("maxFret must be a finite number.")
  ELSE IF maxFret.v < 0 THEN Throw("maxFret must be >= 0.")
  ELSE Ok(Num(MathFloor(maxFret.v)))

\* a lane is taken also when its fret equals the best so far
takesLaneOnTie(fret, resolvedFret) == JsLess(fret, resolvedFret) \/ (fret.fin /\ fret = resolvedFret)

\* fret < resolvedFret
takesLane(fret, resolvedFret) == JsLess(fret, resolvedFret)

\* the loop of resolveLaneAndFret from BASS_LANE_ORDER[index], with
\* resolved = [lane, fret] the resolvedLane (<<>> for null) and resolvedFret
RECURSIVE scanLanes(_, _, _, _, _)
scanLanes(index, resolved, midiNote, table, maxFret) ==
  IF index > Len(BASS_LANE_ORDER) THEN resolved
  ELSE LET lane == BASS_LANE_ORDER[index]
           fret == JsMinus(midiNote, table[lane])
       IN  IF JsLess(fret, Num(0)) \/ JsLess(maxFret, fret)
             THEN scanLanes(index + 1, resolved, midiNote, table, maxFret)
           ELSE IF takesLane(fret, resolved.fret)
             THEN scanLanes(index + 1, [lane |-> <<lane>>, fret |-> fret], midiNote, table, maxFret)
           ELSE scanLanes(index + 1, resolved, midiNote, table, maxFret)

\* <<>> for null, <<[lane, fret]>> for the lane and fret
resolveLaneAndFret(midiNote, table, maxFret) ==
  LET resolved == scanLanes(1, [lane |-> <<>>, fret |-> PosInfinity], midiNote, table, maxFret)
  IN  IF resolved.lane = <<>> \/ ~resolved.fret.fin THEN <<>>
      ELSE <<[lane |-> resolved.lane[1], fret |-> resolved.fret.v]>>

\* Math.max(0, timeMs) + Math.max(0, durationMs)
endTimeMs(timeMs, durationMs) == MathMax(0, timeMs) + MathMax(0, durationMs)

\* the whole loop with the fraction cut off
wholeLoopDurationMsFloored(maxEndTimeMs) == MathMax(Fixed(1), MathFloor(maxEndTimeMs))

\* Math.max(1, Math.ceil(maxEndTimeMs))
wholeLoopDurationMs(maxEndTimeMs) == MathMax(Fixed(1), MathCeil(maxEndTimeMs))

\* the loop of deriveLoopDurationMs from notes[index] (0-based), with the
\* maximum so far: Ok of the maximum, or the Throw of the first check that fails
RECURSIVE scanEndTimes(_, _, _)
scanEndTimes(notes, index, maxEndTimeMs) ==
  IF ~(index < Len(notes)) THEN Ok(maxEndTimeMs)
  ELSE LET note == notes[index + 1]
           timeMs == assertFiniteNumber(note.timeMs, "notes[" \o IndexString(index) \o "].timeMs")
           durationMs ==
             assertFiniteNumber(note.durationMs, "notes[" \o IndexString(index) \o "].durationMs")
       IN  IF ~timeMs.ok THEN timeMs
           ELSE IF ~durationMs.ok THEN durationMs
           ELSE scanEndTimes(notes, index + 1,
                             MathMax(maxEndTimeMs, endTimeMs(timeMs.value, durationMs.value)))

\* deriveLoopDurationMs of chart/midi.ts
midi_deriveLoopDurationMs(notes) ==
  LET scanned == scanEndTimes(notes, 0, 0)
  IN  IF ~scanned.ok THEN scanned ELSE Ok(wholeLoopDurationMs(scanned.value))

\* the first of a sequence of nullable values that is not null, or null
RECURSIVE FirstOf(_)
FirstOf(nullables) ==
  IF nullables = <<>> THEN <<>>
  ELSE IF Head(nullables) # <<>> THEN Head(nullables)
  ELSE FirstOf(Tail(nullables))

\* the note of the decoder as midi, timeMs and durationMs, each Ok or a Throw
parseNote(note, trackIndex, noteIndex) ==
  LET label == "tracks[" \o IndexString(trackIndex) \o "].notes[" \o IndexString(noteIndex) \o "]"
  IN  [midi |-> normalizeMidiNote(note.midi, trackIndex, noteIndex),
       timeMs |-> secondsToMs(note.time, label \o ".time"),
       durationMs |-> secondsToMs(note.duration, label \o ".duration")]

\* what the callback of track.notes.map throws for the note, if it throws
parseNoteThrown(parsed) ==
  IF ~parsed.midi.ok THEN <<parsed.midi.error>>
  ELSE IF ~parsed.timeMs.ok THEN <<parsed.timeMs.error>>
  ELSE IF ~parsed.durationMs.ok THEN <<parsed.durationMs.error>>
  ELSE <<>>

\* the callback of midi.tracks.map: [thrown, track], track for thrown = <<>>
parseTrack(track, trackIndex) ==
  LET parsed == [i \in 1..Len(track.notes) |-> parseNote(track.notes[i], trackIndex, i - 1)]
      notes == [i \in 1..Len(parsed) |->
                  [midi |-> Num(parsed[i].midi.value),
                   timeMs |-> Num(parsed[i].timeMs.value),
                   durationMs |-> Num(parsed[i].durationMs.value)]]
      thrown == FirstOf([i \in 1..Len(parsed) |-> parseNoteThrown(parsed[i])])
  IN  [thrown |-> thrown,
       track |-> IF thrown # <<>> THEN <<>>
                 ELSE <<[index |-> Fixed(trackIndex),
                         name |-> normalizeTrackName(track.name, trackIndex),
                         noteCount |-> Len(notes),
                         notes |-> sortParsedNotes(notes)]>>]

\* arrayBuffer is what the caller passes: whether it is an ArrayBuffer,
\* whether new Midi(arrayBuffer) decodes it, and the tempos and tracks decoded
parseSmfFromArrayBuffer(arrayBuffer) ==
  LET prefix == "Failed to parse Standard MIDI File (SMF): "
      tracks == [i \in 1..Len(arrayBuffer.tracks) |-> parseTrack(arrayBuffer.tracks[i], i - 1)]
      thrown == FirstOf([i \in 1..Len(tracks) |-> tracks[i].thrown])
  IN  IF ~arrayBuffer.isArrayBuffer
        THEN createFailure("SMF_PARSE_FAILED", prefix \o "input must be an ArrayBuffer.")
      ELSE IF ~arrayBuffer.decodes
        THEN createFailure("SMF_PARSE_FAILED", prefix \o "the decoder's message")
      ELSE IF thrown # <<>>
        THEN createFailure("SMF_PARSE_FAILED", prefix \o thrown[1])
      ELSE createSuccess([bpm |-> deriveBpm(arrayBuffer),
                          tracks |-> [i \in 1..Len(tracks) |-> tracks[i].track[1]]])

\* parsedSmf.tracks.find((candidate) => candidate.index === trackIndex)
findTrack(tracks, trackIndex) ==
  LET Carries(candidate) == candidate.index = trackIndex
      found == SelectSeq(tracks, Carries)
  IN  IF found = <<>> THEN <<>> ELSE <<Head(found)>>

\* the index (0-based) of the note the loop returns NOTE_OUT_OF_RANGE at: none
noUnmappableNoteIndex(resolved) == -1

\* the index (0-based) of the note the loop returns NOTE_OUT_OF_RANGE at, or
\* -1; resolved[i] is what resolveLaneAndFret returns for the note i - 1
unmappableNoteIndex(resolved) ==
  IF \A i \in 1..Len(resolved) : resolved[i] # <<>> THEN -1
  ELSE (CHOOSE i \in 1..Len(resolved) :
          resolved[i] = <<>> /\ \A j \in 1..(i - 1) : resolved[j] # <<>>) - 1

\* the ChartNote pushed for a source note
chartNote(sourceNote, laneAndFret) ==
  [lane |-> laneAndFret.lane, fret |-> Num(laneAndFret.fret),
   timeMs |-> sourceNote.timeMs, durationMs |-> sourceNote.durationMs]

\* the notes pushed by the loop: one for each note that resolved
pushedNotes(track, resolved) ==
  LET Resolves(i) == resolved[i] # <<>>
      kept == SelectSeq([i \in 1..Len(resolved) |-> i], Resolves)
  IN  [k \in 1..Len(kept) |-> chartNote(track.notes[kept[k]], resolved[kept[k]][1])]

HasFiniteTimes(notes) ==
  \A i \in 1..Len(notes) : notes[i].timeMs.fin /\ notes[i].durationMs.fin

\* convertSmfTrackToLaneChart from the track found on.  Ok(result) when the
\* call returns result, Throw when it throws.  With a time that is not
\* finite the comparator is no order, the array is as the sort leaves it, and
\* deriveLoopDurationMs throws for the first such note of that array: the
\* message keeps no index.  The messages keep the words that do not vary
convertTrack(parsedSmf, track, options) ==
  LET openStrings == midi_resolveOpenStringMidiByLane(options.openStringMidiByLane)
      maxFret == resolveMaxFret(options.maxFret)
      resolved == [i \in 1..Len(track.notes) |->
                     resolveLaneAndFret(track.notes[i].midi, openStrings.value,
                                        maxFret.value)]
      noteIndex == unmappableNoteIndex(resolved)
      pushed == pushedNotes(track, resolved)
      notes == sortChartNotes(pushed)
  IN  IF ~openStrings.ok
        THEN Ok(createFailure("INVALID_OPTIONS", openStrings.error))
      ELSE IF ~maxFret.ok THEN Ok(createFailure("INVALID_OPTIONS", maxFret.error))
      ELSE IF noteIndex >= 0
        THEN Ok(createFailure("NOTE_OUT_OF_RANGE",
                              "Track note " \o IndexString(noteIndex)
                                \o " cannot be mapped to E/A/D/G lanes."))
      ELSE IF ~HasFiniteTimes(pushed)
        THEN Throw("notes[].timeMs or durationMs must be a finite number.")
      ELSE Ok(createSuccess([bpm |-> parsedSmf.bpm,
                             track |-> [index |-> track.index, name |-> track.name,
                                        noteCount |-> track.noteCount],
                             loopDurationMs |-> Num(midi_deriveLoopDurationMs(notes).value),
                             notes |-> notes]))

\* a conversion that looks at the options before it looks for the track
convertCheckingOptionsFirst(parsedSmf, trackIndex, options) ==
  LET track == findTrack(parsedSmf.tracks, trackIndex.v)
      openStrings == midi_resolveOpenStringMidiByLane(options.openStringMidiByLane)
      maxFret == resolveMaxFret(options.maxFret)
  IN  IF ~openStrings.ok THEN Ok(createFailure("INVALID_OPTIONS", openStrings.error))
      ELSE IF ~maxFret.ok THEN Ok(createFailure("INVALID_OPTIONS", maxFret.error))
      ELSE IF ~IsInteger(trackIndex) \/ trackIndex.v < 0 \/ track = <<>>
        THEN Ok(createFailure("TRACK_NOT_FOUND", "Track index was not found."))
      ELSE convertTrack(parsedSmf, track[1], options)

\* Ok(result) when the call returns result, Throw when it throws
convertSmfTrackToLaneChart(parsedSmf, trackIndex, options) ==
  LET track == findTrack(parsedSmf.tracks, trackIndex.v)
  IN  IF ~IsInteger(trackIndex) \/ trackIndex.v < 0
        THEN Ok(createFailure("TRACK_NOT_FOUND", "Track index must be a non-negative integer."))
      ELSE IF track = <<>>
        THEN Ok(createFailure("TRACK_NOT_FOUND", "Track index was not found."))
      ELSE convertTrack(parsedSmf, track[1], options)

\* the notes are copied one by one: the same values in new objects
createChartDataFromSmfTrackLaneChart(smfChart) == [bpm |-> smfChart.bpm, notes |-> smfChart.notes]

---------------------------------------------------------------------------
(* src/src/scoring/pitch.ts and the chart adapters of src/src/scoring *)

\* resolveOpenStringMidiByLane(overrides) of scoring/pitch.ts: an override
\* is taken as it is.  overrides is <<>> for undefined and <<o>> for the object o
pitch_resolveOpenStringMidiByLane(overrides) ==
  LET given == overrides[1]
      NotFinite(lane) == given[lane].def /\ ~given[lane].fin
      thrown == SelectSeq(BASS_LANE_ORDER, NotFinite)
  IN  IF overrides = <<>>
        THEN Ok([lane \in LANE_NAME_SET |-> Fixed(DEFAULT_OPEN_STRING_MIDI_BY_LANE[lane])])
      ELSE IF thrown # <<>>
        THEN Throw("openStringMidiByLane." \o Head(thrown) \o " must be a finite number.")
      ELSE Ok([lane \in LANE_NAME_SET |->
                 IF given[lane].def THEN given[lane].v
                 ELSE Fixed(DEFAULT_OPEN_STRING_MIDI_BY_LANE[lane])])

assertFinitePositive(slot, label) ==
  IF ~slot.fin THEN Throw(label \o " must be a finite number.")
  ELSE IF slot.v <= 0 THEN Throw(label \o " must be > 0.")
  ELSE Ok(slot.v)

assertFiniteNonNegative(slot, label) ==
  IF ~slot.fin THEN Throw(label \o " must be a finite number.")
  ELSE IF slot.v < 0 THEN Throw(label \o " must be >= 0.")
  ELSE Ok(slot.v)

\* chart.notes.reduce(...) of the adapters' deriveLoopDurationMs from
\* notes[index] (0-based), with maxValue so far: Ok of it, or the first Throw
RECURSIVE reduceEndTimes(_, _, _)
reduceEndTimes(notes, index, maxValue) ==
  IF ~(index < Len(notes)) THEN Ok(maxValue)
  ELSE LET note == notes[index + 1]
           timeMs == assertFiniteNumber(note.timeMs, "notes[" \o IndexString(index) \o "].timeMs")
           durationMs ==
             assertFiniteNonNegative(note.durationMs,
                                     "notes[" \o IndexString(index) \o "].durationMs")
       IN  IF ~timeMs.ok THEN timeMs
           ELSE IF ~durationMs.ok THEN durationMs
           ELSE reduceEndTimes(notes, index + 1, MathMax(maxValue, timeMs.value + durationMs.value))

\* deriveLoopDurationMs of the adapters
adapters_deriveLoopDurationMs(chartData) ==
  LET reduced == reduceEndTimes(chartData.notes, 0, 0)
  IN  IF ~reduced.ok THEN reduced ELSE Ok(MathMax(Fixed(1), reduced.value))

\* the id counted from 1
noteIdFromOne(prefix, index) == prefix \o "-" \o IndexString(index + 1)

\* `chart-${index}` and `lane-${index}`
noteId(prefix, index) == prefix \o "-" \o IndexString(index)

\* the note an adapter returns for notes[index], its checks passed
scoringNote(prefix, note, index, table) ==
  LET targetMidiNote == toMidiNoteFromLaneAndFret(note.lane, note.fret.v, table)
  IN  [id |-> noteId(prefix, index),
       lane |-> note.lane,
       fret |-> note.fret,
       timeMs |-> note.timeMs,
       durationMs |-> note.durationMs,
       targetMidiNote |-> Num(targetMidiNote),
       targetCents |-> Num(toCentsFromMidiNote(targetMidiNote))]

\* what the callback of chart.notes.map throws for notes[index], if it throws
chartDataNoteThrown(note, index) ==
  LET label == "notes[" \o IndexString(index) \o "]"
      timeMs == assertFiniteNumber(note.timeMs, label \o ".timeMs")
      durationMs == assertFiniteNonNegative(note.durationMs, label \o ".durationMs")
      fret == assertFiniteNumber(note.fret, label \o ".fret")
  IN  IF ~timeMs.ok THEN <<timeMs.error>>
      ELSE IF ~durationMs.ok THEN <<durationMs.error>>
      ELSE IF ~fret.ok THEN <<fret.error>>
      ELSE <<>>

\* Ok(chart) or the Throw.  options is [loopDurationMs, openStringMidiByLane]
createLoopScoringChartFromChartData(chartData, options) ==
  LET table == pitch_resolveOpenStringMidiByLane(options.openStringMidiByLane)
      loopDurationMs ==
        IF ~options.loopDurationMs.def THEN adapters_deriveLoopDurationMs(chartData)
        ELSE assertFinitePositive(options.loopDurationMs, "loopDurationMs")
      thrown == FirstOf([i \in 1..Len(chartData.notes) |->
                           chartDataNoteThrown(chartData.notes[i], i - 1)])
  IN  IF ~table.ok THEN table
      ELSE IF ~loopDurationMs.ok THEN loopDurationMs
      ELSE IF thrown # <<>> THEN Throw(thrown[1])
      ELSE Ok([loopDurationMs |-> Num(loopDurationMs.value),
               notes |-> [i \in 1..Len(chartData.notes) |->
                            scoringNote("chart", chartData.notes[i], i - 1, table.value)]])

\* typeof rawFret !== 'number' || !Number.isFinite(rawFret) is ~fret.fin
laneScrollerNoteThrown(note, index) ==
  LET label == "notes[" \o IndexString(index) \o "]"
      timeMs == assertFiniteNumber(note.timeMs, label \o ".timeMs")
      durationMs == assertFiniteNonNegative(note.durationMs, label \o ".durationMs")
  IN  IF ~timeMs.ok THEN <<timeMs.error>>
      ELSE IF ~durationMs.ok THEN <<durationMs.error>>
      ELSE IF ~note.fret.fin THEN <<label \o ".fret is required for scoring.">>
      ELSE <<>>

\* Ok(chart) or the Throw.  options is [openStringMidiByLane]
createLoopScoringChartFromLaneScrollerChart(laneScrollerChart, options) ==
  LET table == pitch_resolveOpenStringMidiByLane(options.openStringMidiByLane)
      loopDurationMs == assertFinitePositive(laneScrollerChart.loopDurationMs, "loopDurationMs")
      thrown == FirstOf([i \in 1..Len(laneScrollerChart.notes) |->
                           laneScrollerNoteThrown(laneScrollerChart.notes[i], i - 1)])
  IN  IF ~table.ok THEN table
      ELSE IF ~loopDurationMs.ok THEN loopDurationMs
      ELSE IF thrown # <<>> THEN Throw(thrown[1])
      ELSE Ok([loopDurationMs |-> Num(loopDurationMs.value),
               notes |-> [i \in 1..Len(laneScrollerChart.notes) |->
                            scoringNote("lane", laneScrollerChart.notes[i], i - 1, table.value)]])

---------------------------------------------------------------------------
(* The files, the parsed files, the charts and the options of an import *)

\* the largest fractional part; the smallest is 1
LargeFraction == Scale - 1

\* a note as the decoder gives it: the times are in seconds
DecodedNote(midi, time, duration) == [midi |-> midi, time |-> time, duration |-> duration]

DecodedTrack(name, notes) == [name |-> name, notes |-> notes]

SmfFile(tempos, tracks) ==
  [isArrayBuffer |-> TRUE, decodes |-> TRUE, tempos |-> tempos, tracks |-> tracks]

NotAnArrayBuffer == [isArrayBuffer |-> FALSE, decodes |-> FALSE, tempos |-> <<>>, tracks |-> <<>>]

InvalidBinary == [isArrayBuffer |-> TRUE, decodes |-> FALSE, tempos |-> <<>>, tracks |-> <<>>]

\* createValidSmfArrayBuffer() of midi.test.ts
ValidSmf ==
  SmfFile(<<Num(Fixed(140))>>,
          <<DecodedTrack(<<" ", "B", "a", "s", "s", " ">>,
                         <<DecodedNote(Num(Fixed(40)), Num(Fixed(1000)), Num(Fixed(250))),
                           DecodedNote(Num(Fixed(28)), Num(Fixed(500)), Num(Fixed(500)))>>),
            DecodedTrack(<<" ">>, <<>>)>>)

\* seconds: zero, half a second, fractions of a millisecond, negative values,
\* and the values that are no finite numbers
DecodedSeconds ==
  {Num(0), Num(Fixed(500) + 1), Num(Fixed(500) + LargeFraction),
   Num(0 - 1), Num(0 - Fixed(500)), NaN, PosInfinity}

DecodedMidis == {Num(Fixed(40)), Num(Fixed(39) + LargeFraction), Num(Fixed(128)), NaN}

\* one note: every time with every duration, and every note number
DecodedNotes ==
  {DecodedNote(Num(Fixed(40)), time, duration) :
     time \in DecodedSeconds, duration \in DecodedSeconds}
  \cup {DecodedNote(midi, Num(Fixed(500)), Num(0)) : midi \in DecodedMidis}

OneNoteSmfs == {SmfFile(<<>>, <<DecodedTrack(<<"A">>, <<note>>)>>) : note \in DecodedNotes}

SmfFiles == {NotAnArrayBuffer, InvalidBinary, ValidSmf} \cup OneNoteSmfs

ParsedNote(midi, timeMs, durationMs) == [midi |-> midi, timeMs |-> timeMs, durationMs |-> durationMs]

\* a ParsedSmf of one track with the index 0
OneTrack(notes) ==
  [bpm |-> Fixed(DEFAULT_BPM),
   tracks |-> <<[index |-> Fixed(0), name |-> <<"B", "a", "s", "s">>,
                 noteCount |-> Len(notes), notes |-> notes]>>]

\* the note numbers: below the E string, the open strings, between them,
\* fractional, above the G string, and the values that are no finite numbers
ParsedMidis ==
  {Num(Fixed(27)), Num(Fixed(28)), Num(Fixed(33)), Num(Fixed(35)), Num(Fixed(45)),
   Num(Fixed(28) + 1), Num(Fixed(48) + LargeFraction), NaN, PosInfinity, NegInfinity}

ParsedTimes == {Num(0), Num(Fixed(100)), Num(0 - Fixed(25) - 1), NaN}

ParsedDurations == {Num(0), Num(Fixed(80) + LargeFraction), Num(0 - Fixed(20)), PosInfinity}

\* one note: every time with every duration for a note that has a lane and
\* for one that has none, and every note number
ParsedNotes ==
  {ParsedNote(midi, timeMs, durationMs) :
     midi \in {Num(Fixed(27)), Num(Fixed(33))},
     timeMs \in ParsedTimes, durationMs \in ParsedDurations}
  \cup {ParsedNote(midi, Num(Fixed(100)), Num(Fixed(80) + LargeFraction)) : midi \in ParsedMidis}

OneNoteTracks == {OneTrack(<<note>>) : note \in ParsedNotes}

\* notes that tie in time, in time and duration, and in all but the lane
TiedNotes ==
  {ParsedNote(Num(Fixed(28)), Num(Fixed(100)), Num(Fixed(80))),
   ParsedNote(Num(Fixed(33)), Num(Fixed(100)), Num(Fixed(80))),
   ParsedNote(Num(Fixed(29)), Num(Fixed(100)), Num(Fixed(80))),
   ParsedNote(Num(Fixed(28)), Num(Fixed(100)), Num(0)),
   ParsedNote(Num(Fixed(45)), Num(0), Num(Fixed(80) + LargeFraction)),
   ParsedNote(Num(Fixed(27)), Num(0), Num(0))}

TwoNoteTracks == {OneTrack(<<first, second>>) : first \in TiedNotes, second \in TiedNotes}

\* parsedSmf of the describe('convertSmfTrackToLaneChart') of midi.test.ts
TestParsedSmf ==
  OneTrack(<<ParsedNote(Num(Fixed(45)), Num(Fixed(300)), Num(Fixed(100))),
             ParsedNote(Num(Fixed(28)), Num(Fixed(100)), Num(Fixed(80))),
             ParsedNote(Num(Fixed(33)), Num(Fixed(200)), Num(Fixed(90)))>>)

\* optionParsedSmf of 'applies openStringMidiByLane and maxFret options'
OptionParsedSmf ==
  OneTrack(<<ParsedNote(Num(Fixed(45)), Num(0), Num(Fixed(100))),
             ParsedNote(Num(Fixed(40)), Num(Fixed(100)), Num(Fixed(100))),
             ParsedNote(Num(Fixed(35)), Num(Fixed(200)), Num(Fixed(100))),
             ParsedNote(Num(Fixed(30)), Num(Fixed(300)), Num(Fixed(100)))>>)

\* a track that carries an index that is not its position
MisnumberedSmf ==
  [bpm |-> Fixed(DEFAULT_BPM),
   tracks |-> <<[index |-> Fixed(1), name |-> <<"B">>, noteCount |-> 0, notes |-> <<>>]>>]

\* the ParsedSmf values a caller writes itself
WrittenSmfs ==
  OneNoteTracks \cup TwoNoteTracks \cup {TestParsedSmf, OptionParsedSmf, MisnumberedSmf, OneTrack(<<>>)}

TrackIndexInputs ==
  {Num(Fixed(0)), Num(Fixed(1)), Num(0 - Fixed(1)), Num(Fixed(0) + 1), NaN}

OpenStrings(E, A, D, G) == <<[E |-> E, A |-> A, D |-> D, G |-> G]>>

\* no overrides, those of midi.test.ts, the A string tuned as the E string,
\* a fractional one, and one that is no finite number
OpenStringInputs ==
  {<<>>,
   OpenStrings(Num(Fixed(30)), Num(Fixed(35)), Num(Fixed(40)), Num(Fixed(45))),
   OpenStrings(Absent, Num(Fixed(28)), Undefined, Absent),
   OpenStrings(Num(Fixed(27) + LargeFraction), Absent, Absent, Absent),
   OpenStrings(Absent, Absent, NaN, Absent)}

MaxFretInputs ==
  {Absent, Num(Fixed(5) + LargeFraction), Num(0), Num(0 - 1), PosInfinity}

ConvertOptions(overrides, maxFret) == [openStringMidiByLane |-> overrides, maxFret |-> maxFret]

ConvertOptionInputs ==
  {ConvertOptions(overrides, maxFret) : overrides \in OpenStringInputs, maxFret \in MaxFretInputs}

NoConvertOptions == ConvertOptions(<<>>, Absent)

LaneNote(lane, fret, timeMs, durationMs) ==
  [lane |-> lane, fret |-> fret, timeMs |-> timeMs, durationMs |-> durationMs]

\* the chart of 'derives loop duration from max note end time and maps pitch targets'
TestChartData ==
  [bpm |-> Fixed(DEFAULT_BPM), loopDurationMs |-> Num(Fixed(1800)),
   notes |-> <<LaneNote("E", Num(Fixed(0)), Num(Fixed(100)), Num(Fixed(50))),
               LaneNote("A", Num(Fixed(2)), Num(Fixed(400)), Num(Fixed(120)))>>]

WrittenFrets == {Num(Fixed(3)), Absent, NaN}

WrittenDurations == {Num(Fixed(50)), Num(0 - 1), PosInfinity}

WrittenTimes == {Num(Fixed(250)), Num(0 - Fixed(100)), Num(Fixed(250) + 1), NaN}

WrittenLoopDurations == {Num(Fixed(1800)), Num(0), NaN, Absent}

\* the charts a caller writes itself: a chart carries bpm for the one
\* adapter and loopDurationMs for the other
WrittenCharts ==
  {TestChartData}
  \cup {[bpm |-> Fixed(DEFAULT_BPM), loopDurationMs |-> loopDurationMs,
         notes |-> <<LaneNote("G", Num(Fixed(0)), Num(Fixed(600)), Num(Fixed(120))),
                     LaneNote("D", fret, timeMs, durationMs)>>] :
          loopDurationMs \in WrittenLoopDurations, fret \in WrittenFrets,
          timeMs \in WrittenTimes, durationMs \in WrittenDurations}

AdapterOptions(loopDurationMs, overrides) ==
  [loopDurationMs |-> loopDurationMs, openStringMidiByLane |-> overrides]

AdapterOptionInputs ==
  {AdapterOptions(loopDurationMs, overrides) :
     loopDurationMs \in {Absent, Num(Fixed(2000)), Num(0), NegInfinity},
     overrides \in {<<>>, OpenStrings(Num(Fixed(40)), Absent, Absent, Absent)}}
  \cup {AdapterOptions(Absent, overrides) :
          overrides \in {OpenStrings(Absent, Absent, Num(Fixed(40) + 1), Absent),
                         OpenStrings(Absent, PosInfinity, Absent, Absent)}}

---------------------------------------------------------------------------
(* The import of a chart: a caller parses a file, or writes a ParsedSmf,   *)
(* converts a track of it and adapts the chart for the engine; or it       *)
(* writes a chart and adapts that.  The engine is not touched.             *)

\* the chart of the last conversion, if it returned one
ConvertedCharts ==
  IF laneChart # <<>> /\ laneChart[1].ok /\ laneChart[1].value.ok
    THEN {laneChart[1].value.value}
    ELSE {}

\* the caller has neither a file nor a ParsedSmf: it writes its charts
WritesCharts == smf = <<>> /\ heldSmf = <<>>

\* what the caller may pass to createLoopScoringChartFromChartData
ChartDataInputs ==
  {createChartDataFromSmfTrackLaneChart(converted) : converted \in ConvertedCharts}
  \cup (IF WritesCharts THEN WrittenCharts ELSE {})

\* what the caller may pass to createLoopScoringChartFromLaneScrollerChart
LaneScrollerChartInputs == ConvertedCharts \cup (IF WritesCharts THEN WrittenCharts ELSE {})

ImportInit ==
  \E e \in {construct(SingleChart, NoOverrides).value} :
    /\ chart = e.chart
    /\ openStringMidiByLane = e.openStringMidiByLane
    /\ config = e.config
    /\ nextLoopIndexByNote = e.nextLoopIndexByNote
    /\ perfectCount = e.perfectCount
    /\ goodCount = e.goodCount
    /\ missCount = e.missCount
    /\ judged = NoneJudged(e.chart.notes)
    /\ tally = NoTally
    /\ NoObjects
    /\ NoTransport
    /\ smf \in {<<>>} \cup {<<file>> : file \in SmfFiles}
    /\ heldSmf = <<>>
    /\ laneChart = <<>>
    /\ scoringChart = <<>>

\* parseSmfFromArrayBuffer(file): the caller keeps the value of a success
ParseSmf ==
  /\ smf # <<>>
  /\ \E result \in {parseSmfFromArrayBuffer(smf[1])} :
       heldSmf' = IF result.ok THEN <<result.value>> ELSE heldSmf
  /\ UNCHANGED <<engineVars, judged, tally, copyVars, transportVars, smf, laneChart, scoringChart>>

\* the caller writes a ParsedSmf, once, instead of a chart
WriteSmf ==
  /\ smf = <<>>
  /\ heldSmf = <<>>
  /\ scoringChart = <<>>
  /\ \E written \in WrittenSmfs : heldSmf' = <<written>>
  /\ UNCHANGED <<engineVars, judged, tally, copyVars, transportVars, smf, laneChart, scoringChart>>

\* convertSmfTrackToLaneChart(parsedSmf, trackIndex, options): the chart
\* adapted from an earlier conversion is let go
ConvertSmfTrack ==
  /\ heldSmf # <<>>
  /\ \E trackIndex \in TrackIndexInputs : \E options \in ConvertOptionInputs :
       laneChart' = <<convertSmfTrackToLaneChart(heldSmf[1], trackIndex, options)>>
  /\ scoringChart' = <<>>
  /\ UNCHANGED <<engineVars, judged, tally, copyVars, transportVars, smf, heldSmf>>

\* createLoopScoringChartFromChartData(chart, options)
AdaptChartData ==
  /\ \E chartData \in ChartDataInputs : \E options \in AdapterOptionInputs :
       scoringChart' = <<createLoopScoringChartFromChartData(chartData, options)>>
  /\ UNCHANGED <<engineVars, judged, tally, copyVars, transportVars, smf, heldSmf, laneChart>>

\* createLoopScoringChartFromLaneScrollerChart(chart, options)
AdaptLaneScrollerChart ==
  /\ \E laneScrollerChart \in LaneScrollerChartInputs : \E options \in AdapterOptionInputs :
       scoringChart' = <<createLoopScoringChartFromLaneScrollerChart(laneScrollerChart, options)>>
  /\ UNCHANGED <<engineVars, judged, tally, copyVars, transportVars, smf, heldSmf, laneChart>>

ImportNext ==
  \/ ParseSmf
  \/ WriteSmf
  \/ ConvertSmfTrack
  \/ AdaptChartData
  \/ AdaptLaneScrollerChart

ImportSpec == ImportInit /\ [][ImportNext]_vars

---------------------------------------------------------------------------
(* What a conversion of the ParsedSmf held returns *)

\* the track of an accepted call: the first that carries the index
TrackOf(parsedSmf, trackIndex) == findTrack(parsedSmf.tracks, trackIndex.v)[1]

\* the call returned a chart
Converts(outcome) == outcome.ok /\ outcome.value.ok

\* the call returned a failure with the code
FailsWith(outcome, code) == outcome.ok /\ ~outcome.value.ok /\ outcome.value.error.code = code

\* the open string of a lane under the options: the default, or the override rounded
OpenStringOf(options, lane) ==
  midi_resolveOpenStringMidiByLane(options.openStringMidiByLane).value[lane]

\* 0 <= fret <= maxFret, maxFret floored, and no bound when it is omitted
FretFits(fret, options) ==
  /\ fret >= 0
  /\ options.maxFret.def => fret <= MathFloor(options.maxFret.v)

\* note carries the lane and fret the conversion rule gives the note number
IsBestLaneAndFret(note, midi, options) ==
  /\ note.fret.fin
  /\ midi.fin
  /\ note.fret.v = midi.v - OpenStringOf(options, note.lane)
  /\ FretFits(note.fret.v, options)
  /\ \A lane \in LANE_NAME_SET :
       LET fret == midi.v - OpenStringOf(options, lane)
       IN  FretFits(fret, options) =>
             \/ note.fret.v < fret
             \/ note.fret.v = fret /\ LANE_ORDER_INDEX[note.lane] <= LANE_ORDER_INDEX[lane]

\* note is source with a lane and fret by the rule
IsMapped(note, source, options) ==
  /\ note.timeMs = source.timeMs
  /\ note.durationMs = source.durationMs
  /\ IsBestLaneAndFret(note, source.midi, options)

\* 'applies openStringMidiByLane and maxFret options' of midi.test.ts
ScenarioCustomTuning ==
  LET options == ConvertOptions(OpenStrings(Num(Fixed(30)), Num(Fixed(35)), Num(Fixed(40)),
                                            Num(Fixed(45))),
                                Num(Fixed(5) + LargeFraction))
      outcome == convertSmfTrackToLaneChart(OptionParsedSmf, Num(Fixed(0)), options)
  IN  /\ Converts(outcome)
      /\ outcome.value.value.notes =
           <<LaneNote("G", Num(Fixed(0)), Num(Fixed(0)), Num(Fixed(100))),
             LaneNote("D", Num(Fixed(0)), Num(Fixed(100)), Num(Fixed(100))),
             LaneNote("A", Num(Fixed(0)), Num(Fixed(200)), Num(Fixed(100))),
             LaneNote("E", Num(Fixed(0)), Num(Fixed(300)), Num(Fixed(100)))>>
      /\ outcome.value.value.loopDurationMs = Num(Fixed(400))

\* C21: every note of a successful conversion carries fret = midi - openString[lane] with 0 <= fret <= floor(maxFret) (no bound without maxFret), the smallest such fret over the four lanes, on the earlier lane in E<A<D<G order when lanes tie
C21_LaneAndFretAreMinimal ==
  /\ ScenarioCustomTuning
  /\ heldSmf # <<>> =>
       \A trackIndex \in TrackIndexInputs : \A options \in ConvertOptionInputs :
         LET outcome == convertSmfTrackToLaneChart(heldSmf[1], trackIndex, options)
             sources == TrackOf(heldSmf[1], trackIndex).notes
             notes == outcome.value.value.notes
         IN  Converts(outcome) =>
               /\ \A i \in 1..Len(notes) : \E j \in 1..Len(sources) :
                    IsMapped(notes[i], sources[j], options)
               /\ \A j \in 1..Len(sources) : \E i \in 1..Len(notes) :
                    IsMapped(notes[i], sources[j], options)

\* a chart was returned with a note two frets up the A string: the E string,
\* seven frets below the note, was not taken
C21_Witness ==
  \E converted \in ConvertedCharts : \E i \in 1..Len(converted.notes) :
    converted.notes[i].lane = "A" /\ converted.notes[i].fret = Num(Fixed(2))

\* the call names a track of the ParsedSmf
ExistingTrack(parsedSmf, trackIndex) ==
  /\ IsInteger(trackIndex)
  /\ trackIndex.v >= 0
  /\ \E t \in 1..Len(parsedSmf.tracks) : parsedSmf.tracks[t].index = trackIndex.v

ValidOptions(options) ==
  midi_resolveOpenStringMidiByLane(options.openStringMidiByLane).ok /\ resolveMaxFret(options.maxFret).ok

\* a <= b of JavaScript
JsLessOrEqual(a, b) == JsLess(a, b) \/ (a = b /\ (a.fin \/ a.v # 0))

\* 0 <= midi - openString[lane] <= maxFret for some lane, as JavaScript
\* compares numbers (maxFret floored, Infinity when omitted)
SomeLaneInBounds(midi, options) ==
  \E lane \in LANE_NAME_SET :
    LET fret == JsMinus(midi, OpenStringOf(options, lane))
    IN  JsLessOrEqual(Num(0), fret) /\ JsLessOrEqual(fret, resolveMaxFret(options.maxFret).value)

\* a finite note number with a lane whose fret fits
HasLane(midi, options) ==
  midi.fin /\ \E lane \in LANE_NAME_SET : FretFits(midi.v - OpenStringOf(options, lane), options)

\* the claim as it was stated: the failure if and only if some note has no
\* lane in bounds, which for the default options is a note number below 28
C22_AsStated ==
  heldSmf # <<>> =>
    \A trackIndex \in TrackIndexInputs : \A options \in ConvertOptionInputs :
      LET outcome == convertSmfTrackToLaneChart(heldSmf[1], trackIndex, options)
          sources == TrackOf(heldSmf[1], trackIndex).notes
      IN  ExistingTrack(heldSmf[1], trackIndex) /\ ValidOptions(options) =>
            /\ FailsWith(outcome, "NOTE_OUT_OF_RANGE")
                 <=> \E j \in 1..Len(sources) : ~SomeLaneInBounds(sources[j].midi, options)
            /\ options = NoConvertOptions =>
                 (FailsWith(outcome, "NOTE_OUT_OF_RANGE")
                    <=> \E j \in 1..Len(sources) : JsLess(sources[j].midi, Num(Fixed(28))))
            /\ FailsWith(outcome, "NOTE_OUT_OF_RANGE") => outcome.value.value = <<>>
            /\ Converts(outcome) => Len(outcome.value.value.notes) = Len(sources)

\* C22: with an existing track and valid options the conversion fails with NOTE_OUT_OF_RANGE if and only if some note of the track has a note number that is no finite number or has no lane with 0 <= midi - openString[lane] <= maxFret (default options: not finite or below 28); the failure carries no chart, a success one note per track note
C22_FailsIffANoteHasNoLane ==
  heldSmf # <<>> =>
    \A trackIndex \in TrackIndexInputs : \A options \in ConvertOptionInputs :
      LET outcome == convertSmfTrackToLaneChart(heldSmf[1], trackIndex, options)
          sources == TrackOf(heldSmf[1], trackIndex).notes
      IN  ExistingTrack(heldSmf[1], trackIndex) /\ ValidOptions(options) =>
            /\ FailsWith(outcome, "NOTE_OUT_OF_RANGE")
                 <=> \E j \in 1..Len(sources) : ~HasLane(sources[j].midi, options)
            /\ options = NoConvertOptions =>
                 (FailsWith(outcome, "NOTE_OUT_OF_RANGE")
                    <=> \E j \in 1..Len(sources) :
                          ~sources[j].midi.fin \/ sources[j].midi.v < Fixed(28))
            /\ FailsWith(outcome, "NOTE_OUT_OF_RANGE") => outcome.value.value = <<>>
            /\ Converts(outcome) => Len(outcome.value.value.notes) = Len(sources)

\* a track of two notes, one of them with a lane, failed with NOTE_OUT_OF_RANGE
C22_Witness ==
  /\ heldSmf # <<>>
  /\ laneChart # <<>>
  /\ FailsWith(laneChart[1], "NOTE_OUT_OF_RANGE")
  /\ \E track \in {heldSmf[1].tracks[1]} :
       /\ Len(track.notes) = 2
       /\ \E j \in 1..2 : HasLane(track.notes[j].midi, NoConvertOptions)

\* 'returns TRACK_NOT_FOUND ...' and 'returns INVALID_OPTIONS when options
\* are not valid' of midi.test.ts
ScenarioErrorCodes ==
  /\ FailsWith(convertSmfTrackToLaneChart(TestParsedSmf, Num(Fixed(1)), NoConvertOptions),
               "TRACK_NOT_FOUND")
  /\ FailsWith(convertSmfTrackToLaneChart(TestParsedSmf, Num(0 - Fixed(1)), NoConvertOptions),
               "TRACK_NOT_FOUND")
  /\ FailsWith(convertSmfTrackToLaneChart(TestParsedSmf, Num(Fixed(1) \div 2), NoConvertOptions),
               "TRACK_NOT_FOUND")
  /\ \E outcome \in {convertSmfTrackToLaneChart(TestParsedSmf, Num(Fixed(0)),
                                                ConvertOptions(<<>>, Num(0 - Fixed(1))))} :
       /\ FailsWith(outcome, "INVALID_OPTIONS")
       /\ outcome.value.error.message = "maxFret must be >= 0."

\* C23: TRACK_NOT_FOUND is returned whenever trackIndex is no non-negative integer or no track carries it, whatever the options and the notes; INVALID_OPTIONS is returned for an existing track with invalid options, and only then; NOTE_OUT_OF_RANGE only for an existing track with valid options
C23_ErrorPrecedence ==
  /\ ScenarioErrorCodes
  /\ heldSmf # <<>> =>
       \A trackIndex \in TrackIndexInputs : \A options \in ConvertOptionInputs :
         LET outcome == convertSmfTrackToLaneChart(heldSmf[1], trackIndex, options)
             exists == ExistingTrack(heldSmf[1], trackIndex)
         IN  /\ ~exists => FailsWith(outcome, "TRACK_NOT_FOUND")
             /\ FailsWith(outcome, "TRACK_NOT_FOUND") => ~exists
             /\ FailsWith(outcome, "INVALID_OPTIONS") <=> exists /\ ~ValidOptions(options)
             /\ FailsWith(outcome, "NOTE_OUT_OF_RANGE") => exists /\ ValidOptions(options)

\* TRACK_NOT_FOUND was returned for a ParsedSmf whose track has a note
\* without a lane: the note was not looked at
C23_Witness ==
  /\ heldSmf # <<>>
  /\ laneChart # <<>>
  /\ FailsWith(laneChart[1], "TRACK_NOT_FOUND")
  /\ \E j \in 1..Len(heldSmf[1].tracks[1].notes) :
       ~HasLane(heldSmf[1].tracks[1].notes[j].midi, NoConvertOptions)

\* 'maps notes to lane/fret and keeps deterministic order' of midi.test.ts
ScenarioDeterministicOrder ==
  \E outcome \in {convertSmfTrackToLaneChart(TestParsedSmf, Num(Fixed(0)), NoConvertOptions)} :
    /\ Converts(outcome)
    /\ outcome.value.value.track = [index |-> Fixed(0), name |-> <<"B", "a", "s", "s">>,
                                    noteCount |-> 3]
    /\ outcome.value.value.loopDurationMs = Num(Fixed(400))
    /\ outcome.value.value.notes =
         <<LaneNote("E", Num(Fixed(0)), Num(Fixed(100)), Num(Fixed(80))),
           LaneNote("A", Num(Fixed(0)), Num(Fixed(200)), Num(Fixed(90))),
           LaneNote("G", Num(Fixed(2)), Num(Fixed(300)), Num(Fixed(100)))>>

\* the key (timeMs, durationMs, fret, lane index) of left is not after that of right
InChartOrder(left, right) ==
  \/ left.timeMs.v < right.timeMs.v
  \/ /\ left.timeMs.v = right.timeMs.v
     /\ \/ left.durationMs.v < right.durationMs.v
        \/ /\ left.durationMs.v = right.durationMs.v
           /\ \/ left.fret.v < right.fret.v
              \/ /\ left.fret.v = right.fret.v
                 /\ LANE_ORDER_INDEX[left.lane] <= LANE_ORDER_INDEX[right.lane]

\* the lane a source note goes to by the rule, and the note it becomes
MappedNote(source, options) ==
  LET Best(lane) ==
        IsBestLaneAndFret([lane |-> lane, fret |-> Num(source.midi.v - OpenStringOf(options, lane))],
                          source.midi, options)
      lane == CHOOSE best \in LANE_NAME_SET : Best(best)
  IN  LaneNote(lane, Num(source.midi.v - OpenStringOf(options, lane)),
               source.timeMs, source.durationMs)

TimesIn(notes, note) == Cardinality({i \in 1..Len(notes) : notes[i] = note})

\* the ParsedSmf with the notes of its first track in the order of the permutation
Reordered(parsedSmf, order) ==
  [parsedSmf EXCEPT !.tracks[1].notes = [i \in 1..Len(@) |-> @[order[i]]]]

\* C24: the notes of a successful conversion are the mapped notes of the track, each as often as in the track and with its timeMs and durationMs, in ascending order of (timeMs, durationMs, fret, lane index with E<A<D<G), and they are the same for every order of the notes in the track
C24_NotesAreSortedMappedNotes ==
  /\ ScenarioDeterministicOrder
  /\ heldSmf # <<>> =>
       \A trackIndex \in TrackIndexInputs : \A options \in ConvertOptionInputs :
         LET outcome == convertSmfTrackToLaneChart(heldSmf[1], trackIndex, options)
             sources == TrackOf(heldSmf[1], trackIndex).notes
             notes == outcome.value.value.notes
             mapped == [j \in 1..Len(sources) |-> MappedNote(sources[j], options)]
         IN  Converts(outcome) =>
               /\ Len(notes) = Len(sources)
               /\ \A j \in 1..Len(mapped) : TimesIn(notes, mapped[j]) = TimesIn(mapped, mapped[j])
               /\ \A i \in 1..Len(notes) : \A k \in i..Len(notes) : InChartOrder(notes[i], notes[k])
               /\ \A order \in Permutations(1..Len(heldSmf[1].tracks[1].notes)) :
                    \E other \in {convertSmfTrackToLaneChart(Reordered(heldSmf[1], order),
                                                              trackIndex, options)} :
                      Converts(other) /\ other.value.value.notes = notes

\* a chart was returned with two notes that differ in the lane only, E before
\* A, for a track that has the note of the A string first
C24_Witness ==
  /\ heldSmf # <<>>
  /\ Len(heldSmf[1].tracks[1].notes) = 2
  /\ heldSmf[1].tracks[1].notes[1].midi = Num(Fixed(33))
  /\ \E converted \in ConvertedCharts :
       /\ Len(converted.notes) = 2
       /\ converted.notes[1] = [converted.notes[2] EXCEPT !.lane = "E"]
       /\ converted.notes[2].lane = "A"

\* the tests of describe('deriveLoopDurationMs') of midi.test.ts that need
\* no tenths of a millisecond
ScenarioLoopDuration ==
  /\ midi_deriveLoopDurationMs(<<>>) = Ok(Fixed(1))
  /\ midi_deriveLoopDurationMs(<<[timeMs |-> Num(0 - Fixed(100)), durationMs |-> Num(0 - Fixed(20))],
                                 [timeMs |-> Num(0 - 1), durationMs |-> Num(0)]>>)
       = Ok(Fixed(1))
  /\ midi_deriveLoopDurationMs(<<[timeMs |-> NaN, durationMs |-> Num(Fixed(100))]>>)
       = Throw("notes[0].timeMs must be a finite number.")
  /\ midi_deriveLoopDurationMs(<<[timeMs |-> Num(0), durationMs |-> PosInfinity]>>)
       = Throw("notes[0].durationMs must be a finite number.")

\* Math.max(0, timeMs) + Math.max(0, durationMs) of a note with finite times
ClampedEnd(note) ==
  (IF note.timeMs.v > 0 THEN note.timeMs.v ELSE 0)
    + (IF note.durationMs.v > 0 THEN note.durationMs.v ELSE 0)

\* loopDurationMs is max(1, ceil(the largest clamped end)): a whole number,
\* at least 1 and at least every clamped end, and the least such
IsDerivedLoopDuration(loopDurationMs, notes) ==
  /\ loopDurationMs % Scale = 0
  /\ loopDurationMs >= Fixed(1)
  /\ \A i \in 1..Len(notes) : loopDurationMs >= ClampedEnd(notes[i])
  /\ \/ loopDurationMs = Fixed(1)
     \/ \E i \in 1..Len(notes) : ClampedEnd(notes[i]) > loopDurationMs - Fixed(1)

\* C25: deriveLoopDurationMs(notes) is max(1, ceil(max over notes of (max(0,timeMs) + max(0,durationMs)))), a whole number >= 1 and 1 for no notes, and in every chart a conversion returns every note has timeMs + durationMs <= loopDurationMs
C25_LoopDurationCoversEveryNote ==
  /\ ScenarioLoopDuration
  /\ heldSmf # <<>> =>
       \A t \in 1..Len(heldSmf[1].tracks) :
         LET notes == heldSmf[1].tracks[t].notes
             derived == midi_deriveLoopDurationMs(notes)
         IN  HasFiniteTimes(notes) =>
               derived.ok /\ IsDerivedLoopDuration(derived.value, notes)
  /\ heldSmf # <<>> =>
       \A trackIndex \in TrackIndexInputs : \A options \in ConvertOptionInputs :
         LET outcome == convertSmfTrackToLaneChart(heldSmf[1], trackIndex, options)
             converted == outcome.value.value
         IN  Converts(outcome) =>
               /\ converted.loopDurationMs.fin
               /\ IsDerivedLoopDuration(converted.loopDurationMs.v, converted.notes)
               /\ \A i \in 1..Len(converted.notes) :
                    converted.notes[i].timeMs.v + converted.notes[i].durationMs.v
                      <= converted.loopDurationMs.v

\* a chart was returned whose last note ends within a millisecond: the loop
\* duration is that end rounded up
C25_Witness ==
  \E converted \in ConvertedCharts : \E i \in 1..Len(converted.notes) :
    LET end == converted.notes[i].timeMs.v + converted.notes[i].durationMs.v
    IN  /\ end % Scale # 0
        /\ end < converted.loopDurationMs.v
        /\ converted.loopDurationMs.v < end + Fixed(1)

ConversionCodes == {"TRACK_NOT_FOUND", "INVALID_OPTIONS", "NOTE_OUT_OF_RANGE"}

\* C26: convertSmfTrackToLaneChart never throws: for every parsedSmf, trackIndex and options, parsed notes with non-finite midi, timeMs or durationMs included, the call returns {ok: true, value} or {ok: false, error} with the code TRACK_NOT_FOUND, INVALID_OPTIONS or NOTE_OUT_OF_RANGE
C26_NeverThrows ==
  heldSmf # <<>> =>
    \A trackIndex \in TrackIndexInputs : \A options \in ConvertOptionInputs :
      LET outcome == convertSmfTrackToLaneChart(heldSmf[1], trackIndex, options)
      IN  /\ outcome.ok
          /\ \/ outcome.value.ok
             \/ outcome.value.error.code \in ConversionCodes

\* new Midi(file) decodes the file
Decodes(file) == file.isArrayBuffer /\ file.decodes

\* the notes the decoder yields, as <<track, note>> positions from 1
DecodedPositions(file) ==
  {<<t, i>> \in (1..Len(file.tracks)) \X (1..2) : i <= Len(file.tracks[t].notes)}

DecodedAt(file, position) == file.tracks[position[1]].notes[position[2]]

IsNegative(seconds) == seconds.fin /\ seconds.v < 0

HasNegativeSeconds(file) ==
  \E position \in DecodedPositions(file) :
    IsNegative(DecodedAt(file, position).time) \/ IsNegative(DecodedAt(file, position).duration)

HasNonFiniteSeconds(file) ==
  \E position \in DecodedPositions(file) :
    ~DecodedAt(file, position).time.fin \/ ~DecodedAt(file, position).duration.fin

\* the note number is finite and rounds into 0..127
HasValidMidis(file) ==
  \A position \in DecodedPositions(file) :
    LET midi == DecodedAt(file, position).midi
    IN  midi.fin /\ 2 * midi.v + Scale >= 0 /\ 2 * midi.v + Scale < 2 * Fixed(128)

\* C27 as the specification states it: a decoded note with a negative on-time or duration in seconds makes parseSmfFromArrayBuffer fail with SMF_PARSE_FAILED
C27_NegativeSecondsFailParsing ==
  smf # <<>> /\ Decodes(smf[1]) /\ HasNegativeSeconds(smf[1]) =>
    LET result == parseSmfFromArrayBuffer(smf[1])
    IN  ~result.ok /\ result.error.code = "SMF_PARSE_FAILED"

\* C27: a decoded note whose on-time or duration in seconds is negative and finite is kept, with that time or duration as 0 ms; of the times only one that is not finite makes parseSmfFromArrayBuffer fail with SMF_PARSE_FAILED
C27_NegativeSecondsAreKeptAsZero ==
  smf # <<>> /\ Decodes(smf[1]) /\ HasValidMidis(smf[1]) =>
    LET file == smf[1]
        result == parseSmfFromArrayBuffer(file)
    IN  /\ result.ok <=> ~HasNonFiniteSeconds(file)
        /\ ~result.ok => result.error.code = "SMF_PARSE_FAILED"
        /\ heldSmf # <<>> => result.ok /\ heldSmf[1] = result.value
        /\ result.ok =>
             \A position \in DecodedPositions(file) :
               LET decoded == DecodedAt(file, position)
                   track == result.value.tracks[position[1]]
               IN  /\ track.noteCount = Len(file.tracks[position[1]].notes)
                   /\ Len(track.notes) = track.noteCount
                   /\ IsNegative(decoded.time) =>
                        \E j \in 1..Len(track.notes) : track.notes[j].timeMs = Num(0)
                   /\ IsNegative(decoded.duration) =>
                        \E j \in 1..Len(track.notes) : track.notes[j].durationMs = Num(0)

\* a file with a negative on-time or duration was parsed and its value kept
C27_Witness ==
  /\ smf # <<>>
  /\ Decodes(smf[1]) /\ HasNegativeSeconds(smf[1])
  /\ heldSmf # <<>>
  /\ \E t \in 1..Len(heldSmf[1].tracks) : \E j \in 1..Len(heldSmf[1].tracks[t].notes) :
       heldSmf[1].tracks[t].notes[j].timeMs = Num(0)

\* 'parses bpm, normalizes track metadata, and sorts notes' of midi.test.ts
ScenarioParsesValidSmf ==
  parseSmfFromArrayBuffer(ValidSmf)
    = createSuccess(
        [bpm |-> Fixed(140),
         tracks |-> <<[index |-> Fixed(0), name |-> <<"B", "a", "s", "s">>, noteCount |-> 2,
                       notes |-> <<ParsedNote(Num(Fixed(28)), Num(Fixed(500)), Num(Fixed(500))),
                                   ParsedNote(Num(Fixed(40)), Num(Fixed(1000)), Num(Fixed(250)))>>],
                      [index |-> Fixed(1), name |-> <<"T", "r", "a", "c", "k", " ", "2">>,
                       noteCount |-> 0, notes |-> <<>>]>>])

\* rounded is the whole number nearest to x, the greater of two equally near
IsRounded(rounded, x) ==
  /\ rounded % Scale = 0
  /\ 2 * rounded - Scale <= 2 * x
  /\ 2 * x < 2 * rounded + Scale

\* ms is what the specification gives for a finite value of seconds: 0 for a
\* value <= 0, round(1000 * seconds) for a positive one
IsMsOf(ms, seconds) ==
  /\ ms.fin
  /\ IF seconds.v <= 0 THEN ms.v = 0 ELSE IsRounded(ms.v, seconds.v)

IsWholeAndNotNegative(ms) == ms.fin /\ ms.v % Scale = 0 /\ ms.v >= 0

\* C28: every note of a successfully parsed SMF has integer timeMs >= 0 and durationMs >= 0: a finite seconds value <= 0 gives exactly 0 ms, a positive value s gives round(1000 * s), and a value that is not finite makes the parse fail with SMF_PARSE_FAILED
C28_TimesAreClampedThenRounded ==
  /\ ScenarioParsesValidSmf
  /\ smf # <<>> /\ Decodes(smf[1]) =>
       LET file == smf[1]
           result == parseSmfFromArrayBuffer(file)
       IN  /\ HasNonFiniteSeconds(file) =>
                ~result.ok /\ result.error.code = "SMF_PARSE_FAILED"
           /\ result.ok =>
                \A t \in 1..Len(file.tracks) :
                  Len(file.tracks[t].notes) = 1 =>
                    /\ Len(result.value.tracks[t].notes) = 1
                    /\ IsMsOf(result.value.tracks[t].notes[1].timeMs, file.tracks[t].notes[1].time)
                    /\ IsMsOf(result.value.tracks[t].notes[1].durationMs,
                              file.tracks[t].notes[1].duration)
  /\ smf # <<>> /\ heldSmf # <<>> =>
       \A t \in 1..Len(heldSmf[1].tracks) : \A j \in 1..Len(heldSmf[1].tracks[t].notes) :
         /\ IsWholeAndNotNegative(heldSmf[1].tracks[t].notes[j].timeMs)
         /\ IsWholeAndNotNegative(heldSmf[1].tracks[t].notes[j].durationMs)

\* a file was parsed whose note starts a fraction of a millisecond after a
\* whole one, and the value kept has the time rounded up
C28_Witness ==
  /\ smf # <<>> /\ heldSmf # <<>>
  /\ \E t \in 1..Len(smf[1].tracks) :
       /\ Len(smf[1].tracks[t].notes) = 1
       /\ smf[1].tracks[t].notes[1].time.fin
       /\ smf[1].tracks[t].notes[1].time.v % Scale # 0
       /\ heldSmf[1].tracks[t].notes[1].timeMs.v > smf[1].tracks[t].notes[1].time.v

\* C29: when options.loopDurationMs is not supplied, createLoopScoringChartFromChartData derives for every chart it accepts the loopDurationMs of the conversion rule, max(1, ceil(max over notes of (max(0,timeMs) + max(0,durationMs)))), the value of chart/midi deriveLoopDurationMs on the same notes, notes with negative timeMs included
C29_DerivesAsTheConversionDoes ==
  \A chartData \in ChartDataInputs : \A options \in AdapterOptionInputs :
    LET outcome == createLoopScoringChartFromChartData(chartData, options)
        derived == midi_deriveLoopDurationMs(chartData.notes)
    IN  ~options.loopDurationMs.def /\ outcome.ok =>
          /\ derived.ok
          /\ outcome.value.loopDurationMs = Num(derived.value)
          /\ IsDerivedLoopDuration(outcome.value.loopDurationMs.v, chartData.notes)

WrittenChart(loopDurationMs, notes) ==
  [bpm |-> Fixed(DEFAULT_BPM), loopDurationMs |-> loopDurationMs, notes |-> notes]

ScoredNote(id, lane, fret, timeMs, durationMs, targetMidiNote, targetCents) ==
  [id |-> id, lane |-> lane, fret |-> Num(Fixed(fret)), timeMs |-> Num(Fixed(timeMs)),
   durationMs |-> Num(Fixed(durationMs)), targetMidiNote |-> Num(Fixed(targetMidiNote)),
   targetCents |-> Num(Fixed(targetCents))]

\* describe('createLoopScoringChartFromChartData') of adapters.test.ts
ScenarioChartDataAdapter ==
  /\ createLoopScoringChartFromChartData(TestChartData, AdapterOptions(Absent, <<>>))
       = Ok([loopDurationMs |-> Num(Fixed(520)),
             notes |-> <<ScoredNote("chart-0", "E", 0, 100, 50, 28, 2800),
                         ScoredNote("chart-1", "A", 2, 400, 120, 35, 3500)>>])
  /\ createLoopScoringChartFromChartData(
       WrittenChart(Absent, <<LaneNote("E", Num(Fixed(1)), Num(0), Num(Fixed(100)))>>),
       AdapterOptions(Num(Fixed(2000)), OpenStrings(Num(Fixed(40)), Absent, Absent, Absent)))
       = Ok([loopDurationMs |-> Num(Fixed(2000)),
             notes |-> <<ScoredNote("chart-0", "E", 1, 0, 100, 41, 4100)>>])
  /\ createLoopScoringChartFromChartData(
       WrittenChart(Absent, <<LaneNote("E", Num(0), NaN, Num(Fixed(100)))>>),
       AdapterOptions(Absent, <<>>))
       = Throw("notes[0].timeMs must be a finite number.")
  /\ createLoopScoringChartFromChartData(
       WrittenChart(Absent, <<LaneNote("E", Num(0), Num(0), Num(0 - Fixed(1)))>>),
       AdapterOptions(Absent, <<>>))
       = Throw("notes[0].durationMs must be >= 0.")
  /\ createLoopScoringChartFromChartData(
       WrittenChart(Absent, <<LaneNote("E", Num(0), Num(0), Num(Fixed(100)))>>),
       AdapterOptions(Num(0), <<>>))
       = Throw("loopDurationMs must be > 0.")

\* describe('createLoopScoringChartFromLaneScrollerChart') of adapters.test.ts
ScenarioLaneScrollerAdapter ==
  /\ createLoopScoringChartFromLaneScrollerChart(
       WrittenChart(Num(Fixed(1800)),
                    <<LaneNote("D", Num(Fixed(3)), Num(Fixed(250)), Num(Fixed(100))),
                      LaneNote("G", Num(0), Num(Fixed(600)), Num(Fixed(120)))>>),
       AdapterOptions(Absent, OpenStrings(Absent, Absent, Num(Fixed(40)), Absent)))
       = Ok([loopDurationMs |-> Num(Fixed(1800)),
             notes |-> <<ScoredNote("lane-0", "D", 3, 250, 100, 43, 4300),
                         ScoredNote("lane-1", "G", 0, 600, 120, 43, 4300)>>])
  /\ \A fret \in {Absent, NaN} :
       createLoopScoringChartFromLaneScrollerChart(
         WrittenChart(Num(Fixed(1000)),
                      <<LaneNote("E", fret, Num(Fixed(100)), Num(Fixed(50)))>>),
         AdapterOptions(Absent, <<>>))
         = Throw("notes[0].fret is required for scoring.")

\* the ids of the first notes of a chart
ExpectedIds(prefix) ==
  <<prefix \o "-0", prefix \o "-1", prefix \o "-2", prefix \o "-3", prefix \o "-4">>

\* the open string of the lane: the override of the lane, or the default
AdaptedOpenString(options, lane) ==
  IF options.openStringMidiByLane # <<>> /\ options.openStringMidiByLane[1][lane].def
    THEN options.openStringMidiByLane[1][lane].v
    ELSE Fixed(DEFAULT_OPEN_STRING_MIDI_BY_LANE[lane])

\* scored is the chart's notes, one for one and in order, with ids and targets
IsAdapted(scored, notes, prefix, options) ==
  /\ Len(scored) = Len(notes)
  /\ \A i \in 1..Len(notes) :
       /\ scored[i].id = ExpectedIds(prefix)[i]
       /\ scored[i].lane = notes[i].lane
       /\ scored[i].fret = notes[i].fret
       /\ scored[i].timeMs = notes[i].timeMs
       /\ scored[i].durationMs = notes[i].durationMs
       /\ scored[i].targetMidiNote = Num(AdaptedOpenString(options, notes[i].lane) + notes[i].fret.v)
       /\ scored[i].targetCents = Num(100 * scored[i].targetMidiNote.v)

\* a note without a finite fret, or with a negative duration
HasUnscorableNote(notes) ==
  \E i \in 1..Len(notes) :
    \/ ~notes[i].fret.fin
    \/ notes[i].durationMs.fin /\ notes[i].durationMs.v < 0

\* the loop duration is given and is no number > 0
IsNotPositive(loopDurationMs) ==
  loopDurationMs.def /\ ~(loopDurationMs.fin /\ loopDurationMs.v > 0)

\* C30: both chart adapters return one note per input note in the same order, with id chart-<i> or lane-<i>, unchanged lane, timeMs, durationMs and fret, targetMidiNote = openString[lane] + fret with the overrides applied and targetCents = 100 * targetMidiNote; they throw if a fret is missing or non-finite, a durationMs is negative, or the explicit loopDurationMs is not > 0
C30_AdaptersKeepNotesAndResolveTargets ==
  /\ ScenarioChartDataAdapter
  /\ ScenarioLaneScrollerAdapter
  /\ \A chartData \in ChartDataInputs : \A options \in AdapterOptionInputs :
       LET outcome == createLoopScoringChartFromChartData(chartData, options)
       IN  /\ outcome.ok => IsAdapted(outcome.value.notes, chartData.notes, "chart", options)
           /\ HasUnscorableNote(chartData.notes) \/ IsNotPositive(options.loopDurationMs)
                => ~outcome.ok
  /\ \A laneScrollerChart \in LaneScrollerChartInputs : \A options \in AdapterOptionInputs :
       LET outcome == createLoopScoringChartFromLaneScrollerChart(laneScrollerChart, options)
       IN  /\ outcome.ok =>
                /\ IsAdapted(outcome.value.notes, laneScrollerChart.notes, "lane", options)
                /\ outcome.value.loopDurationMs = laneScrollerChart.loopDurationMs
           /\ HasUnscorableNote(laneScrollerChart.notes)
                \/ IsNotPositive(laneScrollerChart.loopDurationMs)
                => ~outcome.ok
  /\ scoringChart # <<>> /\ scoringChart[1].ok =>
       \A i \in 1..Len(scoringChart[1].value.notes) :
         /\ scoringChart[1].value.notes[i].id \in {ExpectedIds("chart")[i], ExpectedIds("lane")[i]}
         /\ scoringChart[1].value.notes[i].targetCents.v
              = 100 * scoringChart[1].value.notes[i].targetMidiNote.v

\* an adapter returned a chart of two notes, the second on a lane whose open
\* string the caller overrode
C30_Witness ==
  /\ scoringChart # <<>>
  /\ scoringChart[1].ok
  /\ Len(scoringChart[1].value.notes) = 2
  /\ scoringChart[1].value.notes[2].id \in {"chart-1", "lane-1"}
  /\ scoringChart[1].value.notes[2].targetMidiNote.v
       # Fixed(DEFAULT_OPEN_STRING_MIDI_BY_LANE[scoringChart[1].value.notes[2].lane])
           + scoringChart[1].value.notes[2].fret.v

---------------------------------------------------------------------------
(* The engine again: what its notes carry, what it emits and what it keeps *)

HasCentsOfMidiNote(note) == note.targetCents = note.targetMidiNote * 100

\* C31: every note of the engine's normalized chart has targetCents = targetMidiNote * 100, for every accepted input chart, whichever of targetCents, targetMidiNote and fret the input note supplies, several of them included
C31_TargetCentsIsMidiNoteTimes100 ==
  \A i \in 1..Len(chart.notes) : HasCentsOfMidiNote(chart.notes[i])

---------------------------------------------------------------------------
(* src/src/ui/lane-scroller.ts and src/src/main.ts: the lane scroller, the *)
(* transport clock and the handlers that drive the engine.  A scroller is  *)
(* [running, playheadMs, speedMultiplier, chart], chart its own copy of    *)
(* the lane chart, of which the clock reads loopDurationMs only.           *)

\* wrapTimeMs of lane-scroller.ts
lane_wrapTimeMs(timeMs, loopDurationMs) ==
  LET wrapped == JsRemainder(timeMs, loopDurationMs)
  IN  IF wrapped < 0 THEN wrapped + loopDurationMs ELSE wrapped

\* LaneScroller.start()
lane_start(scroller) == [scroller EXCEPT !.running = TRUE]

\* LaneScroller.stop()
lane_stop(scroller) == [scroller EXCEPT !.running = FALSE]

\* LaneScroller.setSpeedMultiplier(multiplier), multiplier finite and > 0
lane_setSpeedMultiplier(scroller, multiplier) == [scroller EXCEPT !.speedMultiplier = multiplier]

\* LaneScroller.setPlayheadMs(timeMs), timeMs finite
lane_setPlayheadMs(scroller, timeMs) ==
  [scroller EXCEPT !.playheadMs = lane_wrapTimeMs(timeMs, scroller.chart.loopDurationMs)]

\* LaneScroller.setChart(chart), chart accepted by its normalizeChart
lane_setChart(scroller, laneScrollerChart) ==
  [scroller EXCEPT !.chart = laneScrollerChart,
                   !.playheadMs = lane_wrapTimeMs(@, laneScrollerChart.loopDurationMs)]

\* LaneScroller.onAnimationFrame for a running scroller; elapsedMs is
\* Math.max(0, nowMs - this.lastFrameNowMs)
lane_onAnimationFrame(scroller, elapsedMs) ==
  [scroller EXCEPT
     !.playheadMs = lane_wrapTimeMs(@ + elapsedMs * scroller.speedMultiplier,
                                    scroller.chart.loopDurationMs)]

\* currentPlayheadMs + loopDurationMs * 0.5 < previousPlayheadMs, in halves
wrappedSince(currentPlayheadMs, previousPlayheadMs, loopDurationMs) ==
  2 * currentPlayheadMs + loopDurationMs < 2 * previousPlayheadMs

\* updateTransportClock(): the clock it leaves; it returns absolutePlayheadMs
updateTransportClock(clock, scroller, laneScrollerChart) ==
  LET currentPlayheadMs == scroller.playheadMs
      loopIndex ==
        IF wrappedSince(currentPlayheadMs, clock.previousPlayheadMs,
                        laneScrollerChart.loopDurationMs)
          THEN clock.loopIndex + 1
          ELSE clock.loopIndex
  IN  [loopIndex |-> loopIndex,
       previousPlayheadMs |-> currentPlayheadMs,
       absolutePlayheadMs |-> loopIndex * laneScrollerChart.loopDurationMs + currentPlayheadMs]

\* the lane chart of a chart of the engine: the same loop and notes
LaneChartOf(rawChart) ==
  [loopDurationMs |-> rawChart.loopDurationMs.v, notes |-> rawChart.notes]

\* nowMs - lastFrameNowMs of a frame: a frame in time, and a late one
ElapsedInputs == {TimeStep, 2 * TimeStep}

SpeedMultiplierInputs == {1, 2}

\* what toPitchCents makes of a confident pitch
TransportPitchInputs == {Num(TargetCents)}

\* the last value passed and the one before it
LastTwo(values, value) ==
  IF values = <<>> THEN <<value>> ELSE <<values[Len(values)], value>>

\* the clock stays within the times of the model
InTime(clock) == clock.absolutePlayheadMs <= MaxTick * TimeStep

\* the module's top level: the engine and the scroller are made for the
\* lane chart, nothing runs, and updateTransportClock() leaves the clock at 0
TransportInit ==
  \E e \in {construct(TwoLaneChart, NoOverrides).value} :
    /\ chart = e.chart
    /\ openStringMidiByLane = e.openStringMidiByLane
    /\ config = e.config
    /\ nextLoopIndexByNote = e.nextLoopIndexByNote
    /\ perfectCount = e.perfectCount
    /\ goodCount = e.goodCount
    /\ missCount = e.missCount
    /\ judged = NoneJudged(e.chart.notes)
    /\ tally = NoTally
    /\ NoObjects
    /\ NoImport
    /\ laneScroller = [running |-> FALSE, playheadMs |-> 0, speedMultiplier |-> 1,
                       chart |-> LaneChartOf(TwoLaneChart)]
    /\ activeLaneChart = LaneChartOf(TwoLaneChart)
    /\ transportClock = [loopIndex |-> 0, previousPlayheadMs |-> 0, absolutePlayheadMs |-> 0]
    /\ scoringFrameId = <<>>
    /\ passed = <<>>

\* the engine returned result to a handler of main.ts
HandlerReturned(result) ==
  /\ InstallEngine(result.engine)
  /\ judged' = JudgedWith(judged, chart.notes, result.events)
  /\ tally' = TallyWith(tally, result.events)
  /\ UNCHANGED <<copyVars, importVars>>

\* the animation frame of the lane scroller
LaneAnimationFrame ==
  /\ laneScroller.running
  /\ \E elapsedMs \in ElapsedInputs :
       laneScroller' = lane_onAnimationFrame(laneScroller, elapsedMs)
  /\ UNCHANGED <<engineVars, judged, tally, copyVars, importVars,
                 activeLaneChart, transportClock, scoringFrameId, passed>>

\* scoringFrame(): the pending animation frame of the scoring loop
ScoringFrame ==
  /\ scoringFrameId # <<>>
  /\ IF ~laneScroller.running
       THEN /\ scoringFrameId' = <<>>
            /\ UNCHANGED <<engineVars, judged, tally, copyVars, importVars,
                           laneScroller, activeLaneChart, transportClock, passed>>
       ELSE \E clock \in {updateTransportClock(transportClock, laneScroller, activeLaneChart)} :
              /\ InTime(clock)
              /\ transportClock' = clock
              /\ HandlerReturned(advanceInput(Engine, Num(clock.absolutePlayheadMs)).value)
              /\ passed' = LastTwo(passed, clock.absolutePlayheadMs)
              /\ scoringFrameId' = <<1>>
              /\ UNCHANGED <<laneScroller, activeLaneChart>>

\* onPitchState(pitch) with a confident pitch while the lane runs
PitchState ==
  /\ laneScroller.running
  /\ \E pitchCents \in TransportPitchInputs :
       \E clock \in {updateTransportClock(transportClock, laneScroller, activeLaneChart)} :
         /\ InTime(clock)
         /\ transportClock' = clock
         /\ HandlerReturned(
              evaluateInput(Engine, [evaluatedAtMs |-> Num(clock.absolutePlayheadMs),
                                     pitchCents |-> pitchCents, lane |-> <<>>]).value)
         /\ passed' = LastTwo(passed, clock.absolutePlayheadMs)
  /\ UNCHANGED <<laneScroller, activeLaneChart, scoringFrameId>>

\* the click on the lane start button, enabled while the lane is stopped
LaneStart ==
  /\ ~laneScroller.running
  /\ \E started \in {lane_start(laneScroller)} :
       \E clock \in {updateTransportClock(transportClock, started, activeLaneChart)} :
         /\ InTime(clock)
         /\ laneScroller' = started
         /\ transportClock' = clock
  /\ scoringFrameId' = <<1>>
  /\ UNCHANGED <<engineVars, judged, tally, copyVars, importVars, activeLaneChart, passed>>

\* the click on the lane stop button, enabled while the lane runs
LaneStop ==
  /\ laneScroller.running
  /\ laneScroller' = lane_stop(laneScroller)
  /\ scoringFrameId' = <<>>
  /\ UNCHANGED <<engineVars, judged, tally, copyVars, importVars,
                 activeLaneChart, transportClock, passed>>

\* the change of the lane speed select
LaneSpeedChange ==
  /\ \E multiplier \in SpeedMultiplierInputs :
       laneScroller' = lane_setSpeedMultiplier(laneScroller, multiplier)
  /\ UNCHANGED <<engineVars, judged, tally, copyVars, importVars,
                 activeLaneChart, transportClock, scoringFrameId, passed>>

\* applyImportedLaneChartFromSelectedTrack() for a conversion that succeeded:
\* rawChart is what the adapter makes of the imported chart
ImportLaneChart ==
  \E rawChart \in ValidCharts :
    /\ laneScroller' = lane_setPlayheadMs(
                         lane_setChart(lane_stop(laneScroller), LaneChartOf(rawChart)), 0)
    /\ scoringFrameId' = <<>>
    /\ activeLaneChart' = LaneChartOf(rawChart)
    /\ transportClock' = [loopIndex |-> 0, previousPlayheadMs |-> 0, absolutePlayheadMs |-> 0]
    /\ \E result \in {setChart(Engine, rawChart)} :
         /\ InstallEngine(result.value)
         /\ judged' = NoneJudged(result.value.chart.notes)
    /\ tally' = NoTally
    /\ passed' = <<>>
    /\ UNCHANGED <<copyVars, importVars>>

TransportNext ==
  \/ LaneAnimationFrame
  \/ ScoringFrame
  \/ PitchState
  \/ LaneStart
  \/ LaneStop
  \/ LaneSpeedChange
  \/ ImportLaneChart

TransportSpec == TransportInit /\ [][TransportNext]_vars

\* C32: the absolute playhead that updateTransportClock computes and the app passes as evaluatedAtMs to advance (animation frame) and evaluate (pitch callback) never decreases from one call to the next between chart imports, for every interleaving of frames, pitch callbacks and lane stop and start, while the scroller's playhead moves forward and wraps by any elapsed time
C32_AbsolutePlayheadNeverDecreases ==
  Len(passed) = 2 => passed[1] <= passed[2]

\* the judgement and reason pairs of an input event when no invariant is broken
InputVerdicts ==
  {<<"Perfect", "perfect-window">>, <<"Good", "good-window">>,
   <<"Miss", "pitch-window">>, <<"Miss", "pitch-missing">>}

\* C33: an engine driven through its public API with accepted inputs never emits an event with reason timing-window: every input event is Perfect/perfect-window, Good/good-window, Miss/pitch-window or Miss/pitch-missing, because a candidate has |timingErrorMs| <= timingWindowMs
C33_NoTimingWindowMiss ==
  /\ \A input \in FiniteEvaluateInputs :
       LET evs == Evaluated(input).events
       IN  \A k \in 1..Len(evs) :
             /\ evs[k].reason # "timing-window"
             /\ evs[k].source = "input" =>
                  /\ <<evs[k].judgement, evs[k].reason>> \in InputVerdicts
                  /\ Abs(evs[k].timingErrorMs) <= config.timingWindowMs
             /\ evs[k].source = "auto-miss" => evs[k].reason = "auto-miss"
  /\ \A t \in FiniteTimes :
       LET evs == Advanced(t).events
       IN  \A k \in 1..Len(evs) : evs[k].reason = "auto-miss"

\* an engine that has judged before judges a sample on the edge of the
\* timing window, outside the perfect one and with the pitch in its window: Good
C33_Witness ==
  /\ tally.perfect + tally.good + tally.miss >= 1
  /\ config.perfectTimingWindowMs < config.timingWindowMs
  /\ \E input \in FiniteEvaluateInputs :
       LET inputs == InputEventsOf(Evaluated(input).events)
       IN  /\ Len(inputs) = 1
           /\ Abs(inputs[1].timingErrorMs) = config.timingWindowMs
           /\ inputs[1].pitchErrorCents # <<>>
           /\ Abs(inputs[1].pitchErrorCents[1]) <= config.pitchWindowCents
           /\ inputs[1].judgement = "Good"

\* the candidate findBestCandidate builds for the note at index (1-based)
candidateAt(e, index, adjustedTimeMs) ==
  LET loopIndex == e.nextLoopIndexByNote[index]
      occurrenceTimeMs == getOccurrenceTimeMs(e, e.chart.notes[index], loopIndex)
  IN  [noteIndex |-> index, loopIndex |-> loopIndex,
       occurrenceTimeMs |-> occurrenceTimeMs,
       timingErrorMs |-> adjustedTimeMs - occurrenceTimeMs,
       absTimingErrorMs |-> Abs(adjustedTimeMs - occurrenceTimeMs)]

\* the scan reaches the last `if` of findBestCandidate: the earlier ones failed
reachesSourceOrderTest(candidate, best) ==
  /\ candidate.absTimingErrorMs = best.absTimingErrorMs
  /\ ~(candidate.occurrenceTimeMs < best.occurrenceTimeMs)

\* the last `if` of findBestCandidate is taken: the best is replaced by a
\* note with the same occurrence time and a smaller sourceOrder
takesSourceOrderBranch(e, candidate, best) ==
  /\ reachesSourceOrderTest(candidate, best)
  /\ candidate.occurrenceTimeMs = best.occurrenceTimeMs
  /\ e.chart.notes[candidate.noteIndex].sourceOrder
       < e.chart.notes[best.noteIndex].sourceOrder

\* the pairs <<candidate, best>> the loop of findBestCandidate compares, from
\* index on, with best the value the scan holds there
RECURSIVE comparedPairs(_, _, _, _, _)
comparedPairs(e, best, index, adjustedTimeMs, laneFilter) ==
  IF index > Len(e.chart.notes) THEN {}
  ELSE LET candidate == candidateAt(e, index, adjustedTimeMs)
           skipped == \/ filteredOut(laneFilter, e.chart.notes[index])
                      \/ candidate.absTimingErrorMs > e.config.timingWindowMs
           next == IF skipped THEN best
                   ELSE IF best = <<>> THEN <<candidate>>
                   ELSE IF replacesBest(e, candidate, best[1]) THEN <<candidate>>
                   ELSE best
           here == IF skipped \/ best = <<>> THEN {} ELSE {<<candidate, best[1]>>}
       IN  here \cup comparedPairs(e, next, index + 1, adjustedTimeMs, laneFilter)

\* every cursor array of the chart with each note in its first or second loop
CursorProbes(notes) == [1..Len(notes) -> {0, 1}]

\* timestamps on and between the occurrences, in any order of calls
HalfStep == TimeStep \div 2

AdjustedTimeProbes == {k * HalfStep : k \in -2..(2 * MaxTick)}

LaneFilterProbes == {<<>>, <<"A">>, <<"E">>}

\* no scan of findBestCandidate over the engine e takes the sourceOrder branch
NeverTakesSourceOrderBranch(e) ==
  \A cursors \in CursorProbes(e.chart.notes) :
    \A adjustedTimeMs \in AdjustedTimeProbes, laneFilter \in LaneFilterProbes :
      LET probed == [e EXCEPT !.nextLoopIndexByNote = cursors]
      IN  /\ \A pair \in comparedPairs(probed, <<>>, 1, adjustedTimeMs, laneFilter) :
               ~takesSourceOrderBranch(probed, pair[1], pair[2])
          /\ \A i, j \in 1..Len(e.chart.notes) :
               candidateAt(probed, i, adjustedTimeMs).occurrenceTimeMs
                   = candidateAt(probed, j, adjustedTimeMs).occurrenceTimeMs
                 => /\ e.chart.notes[i].timeMs = e.chart.notes[j].timeMs
                    /\ cursors[i] = cursors[j]
                    /\ (i < j => e.chart.notes[i].sourceOrder < e.chart.notes[j].sourceOrder)

\* the same for three notes given in every order of times before, in and
\* after the loop
ProbesNeverTakeSourceOrderBranch ==
  \A rawChart \in ChartProbes :
    NeverTakesSourceOrderBranch(construct(rawChart, NoOverrides).value)

\* C34: for a chart produced by normalizeChart, findBestCandidate never replaces the best by a later-scanned note with equal |timingErrorMs|, equal occurrenceTimeMs and smaller sourceOrder, for any cursors, timestamps, config and lane filter: equal occurrence times need equal timeMs and equal loop index, and such notes are scanned in ascending sourceOrder
C34_SourceOrderBranchIsNeverTaken ==
  /\ NeverTakesSourceOrderBranch(Engine)
  /\ ProbesNeverTakeSourceOrderBranch

\* an engine that has judged before scans two notes with the same occurrence
\* time inside the timing window: the sourceOrder test is reached, and fails
C34_Witness ==
  /\ tally.perfect + tally.good + tally.miss >= 1
  /\ \E adjustedTimeMs \in AdjustedTimeProbes :
       \E pair \in comparedPairs(Engine, <<>>, 1, adjustedTimeMs, <<>>) :
         /\ reachesSourceOrderTest(pair[1], pair[2])
         /\ pair[1].occurrenceTimeMs = pair[2].occurrenceTimeMs
         /\ pair[1].loopIndex >= 1
         /\ ~takesSourceOrderBranch(Engine, pair[1], pair[2])

\* the sweep evaluate(input) starts with: it is not given the lane filter
SweptFor(input) ==
  collectAutoMisses(Engine, input.evaluatedAtMs.v,
                    applyLatencyOffset(Engine, input.evaluatedAtMs.v))

\* 1 for the note the input event of evs is about, 0 for every other note
MatchesOf(evs, i) == Len(EventsOfNote(InputEventsOf(evs), i))

\* C35: the lane filter of evaluate restricts only candidate matching: the auto-miss sweep of the call retires expired occurrences of notes in every lane, and the input judgement advances the cursor of the matched note only, by exactly 1, leaving every other cursor as the sweep left it
C35_LaneFilterRestrictsMatchingOnly ==
  \A input \in FiniteEvaluateInputs :
    LET result == Evaluated(input)
        swept == SweptFor(input)
        inputs == InputEventsOf(result.events)
    IN  /\ AutoMissesOf(result.events) = swept.events
        /\ Len(inputs) <= 1
        /\ Len(inputs) = 1 /\ input.lane # <<>> => inputs[1].note.lane = input.lane[1]
        /\ \A i \in NoteIndexes :
             result.engine.nextLoopIndexByNote[i]
               = swept.engine.nextLoopIndexByNote[i] + MatchesOf(result.events, i)

\* an engine that has judged before is given a sample filtered to lane A: the
\* call retires an occurrence of the note of lane E and matches the note of lane A
C35_Witness ==
  /\ tally.perfect + tally.good + tally.miss >= 1
  /\ \E input \in FiniteEvaluateInputs :
       LET result == Evaluated(input)
           inputs == InputEventsOf(result.events)
           misses == AutoMissesOf(result.events)
       IN  /\ input.lane = <<"A">>
           /\ Len(inputs) = 1
           /\ inputs[1].note.lane = "A"
           /\ \E k \in 1..Len(misses) : misses[k].note.lane = "E"
           /\ \E i \in NoteIndexes :
                /\ chart.notes[i].lane = "E"
                /\ result.engine.nextLoopIndexByNote[i] > nextLoopIndexByNote[i]

\* the call threw before any assignment to a field of the engine: the outcome
\* carries a message and no engine, and the fields are those before the call
ThrewBeforeAssigning(result) ==
  /\ ~result.ok
  /\ result.value = <<>>
  /\ result.error # ""

\* the merged config updateConfig hands to createScoringConfig is rejected
MergedIsInvalid(overrides) == ~createScoringConfig(Spread(config, overrides)).ok

QuietAt(e, evaluatedAtMs) == advance(e, evaluatedAtMs).events = <<>>

\* the timestamps at which the sweep finds nothing to retire now: after calls
\* up to T with the config, the chart and the cursors kept, they include T
QuietTimes == {t \in FiniteTimes : QuietAt(Engine, t)}

\* the latest of a set of timestamps: a set of one timestamp, or none
Latest(times) == {t \in times : \A u \in times : u <= t}

\* C37: with the config unchanged and no reset or setChart in between, an advance or evaluate call whose evaluatedAtMs is not greater than the maximum evaluatedAtMs of the earlier calls emits no auto-miss event; advance(t) repeated with the same t returns an empty array and changes no state
C37_SweepIsIdempotent ==
  /\ \A input \in FiniteEvaluateInputs :
       \E result \in {Evaluated(input)} :
         \E again \in {advance(result.engine, input.evaluatedAtMs.v)} :
           /\ again.events = <<>>
           /\ again.engine = result.engine
  /\ \A t \in FiniteTimes :
       \E result \in {Advanced(t)} :
         \E again \in {advance(result.engine, t)} :
           /\ again.events = <<>>
           /\ again.engine = result.engine
  /\ \A quiet \in {QuietTimes} :
       \A latest \in Latest(quiet) :
         /\ \A t \in FiniteTimes : t <= latest => t \in quiet
         /\ \A input \in FiniteEvaluateInputs :
              input.evaluatedAtMs.v <= latest =>
                \E result \in {Evaluated(input)} :
                  /\ AutoMissesOf(result.events) = <<>>
                  /\ QuietAt(result.engine, latest)

\* an engine swept up to the fourth tick at least, with an occurrence retired
\* and the next occurrence of a note still open at an earlier timestamp: a
\* sample at that earlier timestamp is judged and no auto-miss comes with it
C37_Witness ==
  /\ tally.miss >= 1
  /\ \E latest \in Latest(QuietTimes) :
       /\ latest >= 4 * TimeStep
       /\ \E input \in FiniteEvaluateInputs :
            /\ input.evaluatedAtMs.v < latest
            /\ Len(InputEventsOf(Evaluated(input).events)) = 1
            /\ AutoMissesOf(Evaluated(input).events) = <<>>

\* the engine e differs from the present one in its config at most
KeepsAllButConfig(e) ==
  /\ e.chart = chart
  /\ e.openStringMidiByLane = openStringMidiByLane
  /\ e.nextLoopIndexByNote = nextLoopIndexByNote
  /\ e.perfectCount = perfectCount
  /\ e.goodCount = goodCount
  /\ e.missCount = missCount

\* the partial holds a value for the field: the key is there, and not undefined
SuppliesValue(overrides, field) == overrides[field].has /\ overrides[field].def

\* the overrides of the engine's callers, and a partial with one key set to undefined
ConfigOverrideProbes ==
  ConfigOverrideInputs \cup {Override(field, Undefined) : field \in ConfigFields}

\* C38: updateConfig(partial) and setLatencyOffsetMs(ms) change no cursor, no counter and not the chart, and every config field that the partial does not supply a value for keeps its current engine value instead of the built-in default; setLatencyOffsetMs changes latencyOffsetMs only
C38_UpdatesKeepWhatIsNotSupplied ==
  /\ \A overrides \in ConfigOverrideProbes :
       \E result \in {updateConfig(Engine, overrides)} :
         result.ok =>
           /\ KeepsAllButConfig(result.value)
           /\ \A field \in ConfigFields :
                ~SuppliesValue(overrides, field) => result.value.config[field] = config[field]
  /\ \A offsetMs \in LatencyOffsetInputs :
       \E result \in {setLatencyOffsetMs(Engine, offsetMs)} :
         result.ok =>
           /\ KeepsAllButConfig(result.value)
           /\ result.value.config.latencyOffsetMs = offsetMs.v
           /\ \A field \in ConfigFields \ {"latencyOffsetMs"} :
                result.value.config[field] = config[field]

---------------------------------------------------------------------------
\* The engine under calls whose timestamps keep growing

\* scoringFrame of main.ts calls advance with the transport time on every
\* animation frame while the lane runs: an advance call at a timestamp of
\* atLeastMs or later
AdvanceFrom(atLeastMs) ==
  \E evaluatedAtMs \in FiniteTimes :
    /\ evaluatedAtMs >= atLeastMs
    /\ \E result \in {advanceInput(Engine, Num(evaluatedAtMs))} :
         IF ~result.ok THEN Threw ELSE Returned(result.value)

\* the calls that keep the config and the chart and do not reset: samples
\* with or without a pitch, at any timestamp and in any order, and advance calls
SweepNext ==
  \/ Evaluate
  \/ Advance

\* the timestamps grow without bound: whatever the timestamp, an advance
\* call at that timestamp or a later one comes, as long as it has work to do
SweepSpec ==
  /\ Init
  /\ [][SweepNext]_vars
  /\ \A atLeastMs \in FiniteTimes : WF_vars(AdvanceFrom(atLeastMs))

LastTime == MaxTick * TimeStep

\* the occurrence k of the note i is out of reach of a sample at LastTime:
\* its timing window has closed by then
Due(i, k) ==
  /\ i \in NoteIndexes
  /\ getOccurrenceTimeMs(Engine, chart.notes[i], k)
       <= applyLatencyOffset(Engine, LastTime) - config.timingWindowMs

\* an event for the occurrence k of the note i has been emitted
Resolved(i, k) ==
  /\ i \in NoteIndexes
  /\ \E m \in DOMAIN judged[i] : judged[i][m] = k

\* every occurrence whose window has closed by LastTime has its event
EveryDueOccurrenceIsResolved ==
  \A i \in NoteIndexes : \A k \in 0..MaxTick : Due(i, k) => Resolved(i, k)

\* C39: if the evaluatedAtMs values passed to advance and evaluate grow without bound, with the config fixed and no reset or setChart, then for every note and every loop index an event for that occurrence (input judgement or auto-miss) is eventually emitted, also when only pitch-less advance calls are made
C39_EveryOccurrenceIsResolved == <>[]EveryDueOccurrenceIsResolved

\* the events are all there, three or more of one note, by input judgements
\* and by auto-misses
C39_Witness ==
  /\ EveryDueOccurrenceIsResolved
  /\ \E i \in NoteIndexes : Len(judged[i]) >= 3
  /\ tally.perfect >= 1
  /\ tally.miss >= 1

---------------------------------------------------------------------------
\* The import again: a converted chart on its way into the engine

\* the import handler of main.ts passes no options to the adapter
NoAdapterOptions == AdapterOptions(Absent, <<>>)

\* the notes of the engine's chart are those of the converted chart, with
\* their times, in the converter's order
KeepsTimesAndOrder(normalized, converted) ==
  /\ Len(normalized.notes) = Len(converted.notes)
  /\ \A n \in 1..Len(converted.notes) :
       /\ normalized.notes[n].timeMs = converted.notes[n].timeMs.v
       /\ normalized.notes[n].sourceOrder = n - 1

\* C40: for every chart returned by convertSmfTrackToLaneChart every note's timeMs is strictly less than the derived loopDurationMs, so passing the chart through createLoopScoringChartFromLaneScrollerChart into the engine leaves each timeMs unchanged by the wrap and keeps the notes in the converter's time order, also for zero-duration notes at the latest time
C40_ImportedTimesAreBelowTheLoop ==
  \A converted \in ConvertedCharts :
    /\ \A n \in 1..Len(converted.notes) :
         converted.notes[n].timeMs.v < converted.loopDurationMs.v
    /\ \A adapted \in {createLoopScoringChartFromLaneScrollerChart(converted, NoAdapterOptions)} :
         adapted.ok =>
           \A normalized \in {normalizeChart(adapted.value, resolveOpenStringMidiByLane)} :
             normalized.ok => KeepsTimesAndOrder(normalized.value, converted)

====
